---------------------------- MODULE Spec2Model ----------------------------
(***************************************************************************)
(* The AMF3 decoder of flash-lso (flash-lso/src/amf3/read.rs).             *)
(*                                                                         *)
(* The decoder is a recursive-descent parser over a byte slice with three  *)
(* reference tables.  Every parsing function of read.rs is an operator     *)
(* that takes the decoder `d` (a record of the struct's fields, the Rc     *)
(* heap and history fields) and the remaining input `i`, and returns a     *)
(* result record: st = "ok" (nom's Ok), "err" (nom's Err::Error) or        *)
(* "panic" (an .expect() that failed), the rest of the input, the value    *)
(* and the decoder afterwards.                                             *)
(*                                                                         *)
(* Bytes are the integers 0..255, byte strings and Strings are sequences   *)
(* of bytes, an Rc<Value> is a handle: an index into `heap`, whose cells   *)
(* hold the value and the strong count.                                    *)
(*                                                                         *)
(* The last section models the editor's TreeNode component                 *)
(* (web/src/component_treenode.rs) under its own specification, SpecTree.  *)
(***************************************************************************)
EXTENDS Integers, Sequences, FiniteSets, TLC

VARIABLES
    string_reference_table,   \* AMF3Decoder.string_reference_table
    trait_reference_table,    \* AMF3Decoder.trait_reference_table
    object_reference_table,   \* AMF3Decoder.object_reference_table (handles)
    external_decoders,        \* AMF3Decoder.external_decoders (its key set)
    heap,                     \* the Rc<Value> cells allocated so far
    hist,                     \* history of the decoding (not program state)
    input,                    \* the byte stream the caller holds
    cursor,                   \* the part of it not yet consumed
    ret,                      \* what the last call returned
    node                      \* the editor's TreeNode (component_treenode.rs)

vars == <<string_reference_table, trait_reference_table, object_reference_table,
          external_decoders, heap, hist, input, cursor, ret, node>>

-----------------------------------------------------------------------------
(* Bounds of the model *)

\* Longest enumerated input stream (streams over Alphabet)
MaxLen == 3

\* Number of bytes the caller may skip in one stream
MaxSkips == 1

-----------------------------------------------------------------------------
(* Bit operations on non-negative integers below 2^31 *)

RECURSIVE BitAnd(_, _)
BitAnd(a, b) ==
    IF a = 0 \/ b = 0 THEN 0
    ELSE (IF a % 2 = 1 /\ b % 2 = 1 THEN 1 ELSE 0) + 2 * BitAnd(a \div 2, b \div 2)

RECURSIVE BitOr(_, _)
BitOr(a, b) ==
    IF a = 0 THEN b
    ELSE IF b = 0 THEN a
    ELSE (IF a % 2 = 1 \/ b % 2 = 1 THEN 1 ELSE 0) + 2 * BitOr(a \div 2, b \div 2)

\* x << n.  The words of the decoder stay below 2^30 (read_int assembles at
\* most 29 bits and shifts them once more), so no bit leaves a 32-bit word;
\* TLC stops with an overflow error on a product of 2^31 or more.
Shl(x, n) == x * (2 ^ n)

\* x >> n
Shr(x, n) == x \div (2 ^ n)

-----------------------------------------------------------------------------
(* Results of the parsers without decoder state (nom's IResult) *)

POk(i, v) == [st |-> "ok", i |-> i, v |-> v, e |-> "none"]

PErr(kind) == [st |-> "err", i |-> <<>>, v |-> 0, e |-> kind]

\* Err(Err::Incomplete(_)): a streaming parser ran out of input.  The
\* combinators of nom recover from Err::Error only, never from this.
PIncomplete == [st |-> "incomplete", i |-> <<>>, v |-> 0, e |-> "Needed"]

\* `let r = e;` followed by In: e is evaluated once and In reads it as r
Bind(e, In(_)) == In(e)

\* nom::number::complete::be_u8
be_u8(i) == IF Len(i) < 1 THEN PErr("Eof") ELSE POk(Tail(i), Head(i))

-----------------------------------------------------------------------------
(* Variable-length integers *)

REFERENCE_FLAG == 1

\* The while loop of read_int and read_int_signed.  s = [st, i, v, result, n]:
\* the cursor, the byte read last, the accumulator and the loop counter.
RECURSIVE VluLoop(_)
VluLoop(s) ==
    IF BitAnd(s.v, 128) # 0 /\ s.n < 3
    THEN LET result == BitOr(Shl(s.result, 7), BitAnd(s.v, 127))
             r == be_u8(s.i)
         IN IF r.st # "ok" THEN [s EXCEPT !.st = "err"]
            ELSE VluLoop([st |-> "ok", i |-> r.i, v |-> r.v,
                          result |-> result, n |-> s.n + 1])
    ELSE s

read_int_signed_NoSignExtend(i) ==
    LET first == be_u8(i)
    IN IF first.st # "ok" THEN PErr("Eof")
       ELSE Bind(VluLoop([st |-> "ok", i |-> first.i, v |-> first.v,
                          result |-> 0, n |-> 0]), LAMBDA s :
            IF s.st # "ok" THEN PErr("Eof")
            ELSE IF s.n < 3
                 THEN POk(s.i, BitOr(Shl(s.result, 7), s.v))
                 ELSE POk(s.i, BitOr(Shl(s.result, 8), s.v)))

read_int_signed(i) ==
    LET first == be_u8(i)
    IN IF first.st # "ok" THEN PErr("Eof")
       ELSE Bind(VluLoop([st |-> "ok", i |-> first.i, v |-> first.v,
                          result |-> 0, n |-> 0]), LAMBDA s :
            IF s.st # "ok" THEN PErr("Eof")
            ELSE IF s.n < 3
                 THEN POk(s.i, BitOr(Shl(s.result, 7), s.v))
                 ELSE Bind(BitOr(Shl(s.result, 8), s.v), LAMBDA result :
                      IF BitAnd(result, 268435456) # 0
                      THEN POk(s.i, result - 536870912)
                      ELSE POk(s.i, result)))

read_int(i) ==
    LET first == be_u8(i)
    IN IF first.st # "ok" THEN PErr("Eof")
       ELSE Bind(VluLoop([st |-> "ok", i |-> first.i, v |-> first.v,
                          result |-> 0, n |-> 0]), LAMBDA s :
            IF s.st # "ok" THEN PErr("Eof")
            ELSE IF s.n < 3
                 THEN POk(s.i, BitOr(Shl(s.result, 7), s.v))
                 ELSE Bind(BitOr(Shl(s.result, 8), s.v), LAMBDA result :
                      IF BitAnd(result, 268435456) # 0
                      THEN POk(s.i, Shl(result, 1) + 1)
                      ELSE POk(s.i, result)))

\* Length::Reference(index) / Length::Size(len)
read_length(i) ==
    Bind(read_int(i), LAMBDA r :
    IF r.st # "ok" THEN r
    ELSE IF BitAnd(r.v, REFERENCE_FLAG) = 0
         THEN POk(r.i, [kind |-> "Reference", n |-> Shr(r.v, 1)])
         ELSE POk(r.i, [kind |-> "Size", n |-> Shr(r.v, 1)]))

-----------------------------------------------------------------------------
(* Values (types.rs).  A Vec<Rc<Value>> is a sequence of handles, an       *)
(* Option is the empty or the one-element sequence.                         *)

Undefined == [t |-> "Undefined"]

Null == [t |-> "Null"]

Bool(b) == [t |-> "Bool", b |-> b]

Integer(n) == [t |-> "Integer", n |-> n]

\* An f64 is kept as its eight big-endian bytes
Number(bytes) == [t |-> "Number", bytes |-> bytes]

String(s) == [t |-> "String", s |-> s]

Object(elements, class_def) ==
    [t |-> "Object", elements |-> elements, class_def |-> class_def]

ECMAArray(dense, assoc, len) ==
    [t |-> "ECMAArray", dense |-> dense, assoc |-> assoc, len |-> len]

StrictArray(items) == [t |-> "StrictArray", items |-> items]

Date(ms, tz) == [t |-> "Date", ms |-> ms, tz |-> tz]

XML(s, string) == [t |-> "XML", s |-> s, string |-> string]

ByteArray(bytes) == [t |-> "ByteArray", bytes |-> bytes]

VectorInt(items, fixed) == [t |-> "VectorInt", items |-> items, fixed |-> fixed]

VectorUInt(items, fixed) == [t |-> "VectorUInt", items |-> items, fixed |-> fixed]

VectorDouble(items, fixed) == [t |-> "VectorDouble", items |-> items, fixed |-> fixed]

VectorObject(items, name, fixed) ==
    [t |-> "VectorObject", items |-> items, name |-> name, fixed |-> fixed]

Dictionary(pairs, weak) == [t |-> "Dictionary", pairs |-> pairs, weak |-> weak]

Custom(custom, regular, class_def) ==
    [t |-> "Custom", custom |-> custom, regular |-> regular, class_def |-> class_def]

Element(name, value) == [name |-> name, value |-> value]

ClassDefinition(name, attributes, static_properties) ==
    [name |-> name, attributes |-> attributes, static_properties |-> static_properties]

\* The value of a cell whose last handle was dropped
Freed == [t |-> "Freed"]

-----------------------------------------------------------------------------
(* Rc<Value>: handles into the heap, with the strong count *)

ElementValues(es) == [k \in 1..Len(es) |-> es[k].value]

RECURSIVE Flatten(_)
Flatten(pairs) ==
    IF pairs = <<>> THEN <<>> ELSE Head(pairs) \o Flatten(Tail(pairs))

\* The handles a value owns
Handles(v) ==
    CASE v.t = "StrictArray" -> v.items
      [] v.t = "ECMAArray" -> v.dense \o ElementValues(v.assoc)
      [] v.t = "Object" -> ElementValues(v.elements)
      [] v.t = "Custom" -> ElementValues(v.custom) \o ElementValues(v.regular)
      [] v.t = "VectorObject" -> v.items
      [] v.t = "Dictionary" -> Flatten(v.pairs)
      [] OTHER -> <<>>

\* Rc::new: the handle is the index of the new cell
NewHandle(d) == Len(d.heap) + 1

RcNew(d, v) == [d EXCEPT !.heap = Append(@, [val |-> v, strong |-> 1])]

\* Rc::clone
RcClone(d, h) == [d EXCEPT !.heap[h].strong = @ + 1]

\* Rc::get_mut: Some only for the one and only handle of the cell
RcGetMut(d, h) == IF d.heap[h].strong = 1 THEN <<h>> ELSE <<>>

\* Dropping handles: a cell whose count falls to zero drops what it owns
RECURSIVE DropAll(_, _)
DropAll(hp, hs) ==
    IF hs = <<>> THEN hp
    ELSE LET h == Head(hs)
             c == hp[h]
         IN IF c.strong > 1
            THEN DropAll([hp EXCEPT ![h].strong = @ - 1], Tail(hs))
            ELSE DropAll([hp EXCEPT ![h] = [val |-> Freed, strong |-> 0]],
                         Handles(c.val) \o Tail(hs))

Drop(d, hs) == [d EXCEPT !.heap = DropAll(@, hs)]

\* Vec::get
VecGet_Clamped(v, index) ==
    IF v = <<>> THEN <<>>
    ELSE IF index < Len(v) THEN <<v[index + 1]>> ELSE <<v[Len(v)]>>

VecGet(v, index) == IF index < Len(v) THEN <<v[index + 1]>> ELSE <<>>

-----------------------------------------------------------------------------
(* Results of the decoder's methods *)

DOk(d, i, v) == [st |-> "ok", i |-> i, v |-> v, d |-> d, e |-> "none"]

DErr(d, kind) == [st |-> "err", i |-> <<>>, v |-> <<>>, d |-> d, e |-> kind]

DPanic(d, msg) == [st |-> "panic", i |-> <<>>, v |-> <<>>, d |-> d, e |-> msg]

\* A failure of a free parser, passed on by a method of the decoder with `?`
DFail(d, r) == [st |-> r.st, i |-> <<>>, v |-> <<>>, d |-> d, e |-> r.e]

\* nom's take!(i, n): the macro is the streaming take, Incomplete on a
\* short input
take_NoAdvance(i, n) ==
    IF Len(i) < n THEN PIncomplete
    ELSE POk(i, SubSeq(i, 1, n))

take(i, n) ==
    IF Len(i) < n THEN PIncomplete
    ELSE POk(SubSeq(i, n + 1, Len(i)), SubSeq(i, 1, n))

\* The n bytes a parser of nom::number::complete reads: Eof on a short input
be_bytes(i, n) ==
    IF Len(i) < n THEN PErr("Eof")
    ELSE POk(SubSeq(i, n + 1, Len(i)), SubSeq(i, 1, n))

\* String::from_utf8 succeeds: the bytes are well-formed UTF-8
RECURSIVE from_utf8_ok(_)
from_utf8_ok(b) ==
    IF b = <<>> THEN TRUE
    ELSE LET c == b[1]
             n == Len(b)
             Cont(k) == k <= n /\ b[k] \in 128..191
         IN IF c < 128 THEN from_utf8_ok(SubSeq(b, 2, n))
            ELSE IF c \in 194..223
                 THEN Cont(2) /\ from_utf8_ok(SubSeq(b, 3, n))
            ELSE IF c \in 224..239
                 THEN /\ Cont(2) /\ Cont(3)
                      /\ (c = 224 => b[2] >= 160)
                      /\ (c = 237 => b[2] <= 159)
                      /\ from_utf8_ok(SubSeq(b, 4, n))
            ELSE IF c \in 240..244
                 THEN /\ Cont(2) /\ Cont(3) /\ Cont(4)
                      /\ (c = 240 => b[2] >= 144)
                      /\ (c = 244 => b[2] <= 143)
                      /\ from_utf8_ok(SubSeq(b, 5, n))
            ELSE FALSE

-----------------------------------------------------------------------------
(* History of a decoding, kept beside the decoder: it records what the     *)
(* claims speak about and changes nothing the code does.                   *)
(*   inline_seen  inline complex-value headers read so far                 *)
(*   returned     per object-table index, the handle the inline decode     *)
(*                of that slot returned (0: it has not returned)           *)
(*   refs         <<index, handle>> of every object reference resolved in  *)
(*                the current call                                         *)
(*   open         the slots whose payload is being parsed, innermost last  *)
(*   cyc          [idx, kind] of every reference to an open slot           *)
(*   ext_done     slots whose external decoder returned Ok                 *)
(*   bs           every byte-stream read of the current call: the length   *)
(*                field, the input after it, the outcome and the string    *)
(*                table before and after                                   *)
(*   lookups      every reference lookup so far: the table, the index,     *)
(*                the table's length, the outcome and the three tables     *)
(*                before and after                                         *)
(*   agg          every run of a closure of the reference-or-value         *)
(*                combinator in the current call: the closure, the         *)
(*                declared length, the input it started on, the outcome,   *)
(*                and whether it left the decoder untouched                *)
(*   elems        every parse_element of the current call: the input it    *)
(*                started on and the outcome                               *)
(*   results      the handles the successful calls returned, in order      *)
(*   skips        bytes the caller has skipped                             *)
(*   calls        calls made so far, and how many of them `failed`         *)

NoHist ==
    [inline_seen |-> 0, returned |-> <<>>, refs |-> {}, open |-> <<>>,
     cyc |-> {}, ext_done |-> {}, bs |-> {}, lookups |-> {}, agg |-> {},
     elems |-> {}, marks |-> {}, singles |-> 0, ext_calls |-> 0, exts |-> {},
     objs |-> {}, vals |-> {}, opened |-> {}, defs |-> {}, kinds |-> <<>>,
     results |-> <<>>, skips |-> 0, calls |-> 0, failed |-> 0]

\* A call starts: the per-call history is reset
HistCall(h) ==
    [h EXCEPT !.refs = {}, !.open = <<>>, !.cyc = {}, !.bs = {}, !.agg = {},
              !.elems = {}, !.marks = {}, !.singles = 0, !.ext_calls = 0,
              !.exts = {}, !.objs = {}, !.vals = {},
              !.opened = {}, !.defs = {}]

Tables(d) ==
    <<d.string_reference_table, d.trait_reference_table, d.object_reference_table>>

\* r is the outcome of reading a byte stream with length field len from i,
\* the input after the length field; from is the input of parse_byte_stream
HistByteStream(r, d, len, i, from) ==
    [r EXCEPT !.d.hist.bs = @ \cup
        {[len |-> len, i |-> i, from |-> from, st |-> r.st, rest |-> r.i, v |-> r.v,
          before |-> d.string_reference_table,
          after |-> r.d.string_reference_table]}]

\* r is the outcome of looking index up in table tbl of d
HistLookup(r, d, tbl, index) ==
    [r EXCEPT !.d.hist.lookups = @ \cup
        {[tbl |-> tbl, index |-> index,
          len |-> Len(CASE tbl = "string" -> d.string_reference_table
                        [] tbl = "trait" -> d.trait_reference_table
                        [] tbl = "object" -> d.object_reference_table),
          st |-> r.st, e |-> r.e, before |-> Tables(d), after |-> Tables(r.d)]}]

\* r is the outcome of the closure `which` run on d with input i and the
\* declared length len
HistAggregate(r, d, which, i, len) ==
    [r EXCEPT !.d.hist.agg = @ \cup
        {[which |-> which, n |-> len, i |-> i, st |-> r.st, e |-> r.e,
          untouched |-> /\ Tables(r.d) = Tables(d)
                        /\ r.d.heap = d.heap
                        /\ r.d.hist.inline_seen = d.hist.inline_seen
                        /\ r.d.hist.bs = d.hist.bs]}]

\* r is the outcome of the inline branch of parse_reference_or_val whose
\* closure `which`, run on input i with declared length len, gave res; the
\* parts of an array are kept
HistValue(r, res, which, i, len) ==
    [r EXCEPT !.d.hist.vals = @ \cup
        {[which |-> which, n |-> len, i |-> i, st |-> r.st, e |-> r.e,
          t |-> IF res.st = "ok" THEN res.v.t ELSE "none",
          dense |-> IF res.st # "ok" THEN <<>>
                    ELSE IF res.v.t = "StrictArray" THEN res.v.items
                    ELSE IF res.v.t = "ECMAArray" THEN res.v.dense ELSE <<>>,
          assoc |-> IF res.st = "ok" /\ res.v.t = "ECMAArray"
                    THEN res.v.assoc ELSE <<>>,
          count |-> IF res.st = "ok" /\ res.v.t = "ECMAArray"
                    THEN res.v.len ELSE 0]}]

\* r is the outcome of parse_element on input i
HistElement(r, i) ==
    [r EXCEPT !.d.hist.elems = @ \cup
        {[i |-> i, st |-> r.st, e |-> r.e, rest |-> r.i]}]

\* r is the outcome of parse_single_element on d with input i: the first
\* byte, the kind of value returned, and whether the handle is a new one
HistMarker(r, d, i) ==
    [r EXCEPT !.d.hist.singles = @ + 1, !.d.hist.marks = @ \cup
        {[i |-> i, st |-> r.st, e |-> r.e, rest |-> r.i,
          h |-> IF r.st = "ok" THEN r.v ELSE 0,
          t |-> IF r.st = "ok" THEN r.d.heap[r.v].val.t ELSE "none",
          string |-> IF r.st = "ok" /\ r.d.heap[r.v].val.t = "XML"
                     THEN r.d.heap[r.v].val.string ELSE FALSE,
          fresh |-> r.st = "ok" /\ r.v > Len(d.heap),
          open |-> {d.hist.open[k].idx : k \in 1..Len(d.hist.open)},
          slots |-> Len(d.object_reference_table),
          untouched |-> Tables(r.d) = Tables(d),
          same |-> [k \in 1..3 |-> Tables(r.d)[k] = Tables(d)[k]],
          registry |-> r.d.external_decoders = d.external_decoders]}]

\* The registered external decoder is about to be called
HistInvoke(d) == [d EXCEPT !.hist.ext_calls = @ + 1]

\* r is the outcome of the External branch for class_def on d, with input i
\* and the object's slot at index: was the class registered, was a decoder
\* called, was a nested element parsed; the tables and the slot as the
\* branch found them, the tables as it left them
HistExternal(r, d, class_def, i, index) ==
    [r EXCEPT !.d.hist.exts = @ \cup
        {[name |-> class_def.name, i |-> i, trait |-> class_def,
          slot_set |-> /\ index < Len(d.object_reference_table)
                       /\ d.heap[d.object_reference_table[index + 1]].val =
                              Object(<<>>, <<class_def>>),
          at |-> Tables(d), after |-> Tables(r.d), rest |-> r.i,
          t |-> IF r.st = "ok" THEN r.d.heap[r.v].val.t ELSE "none",
          custom |-> IF r.st = "ok" /\ r.d.heap[r.v].val.t = "Custom"
                     THEN r.d.heap[r.v].val.custom ELSE <<>>,
          regular |-> IF r.st = "ok" /\ r.d.heap[r.v].val.t = "Custom"
                      THEN r.d.heap[r.v].val.regular ELSE <<>>,
          calls |-> r.d.hist.ext_calls - d.hist.ext_calls,
          registered |-> class_def.name \in d.external_decoders,
          st |-> r.st, e |-> r.e,
          invoked |-> r.d.hist.ext_calls # d.hist.ext_calls,
          parsed |-> r.d.hist.singles # d.hist.singles]}]

\* r is the outcome of decoding the fields of a non-external object with
\* trait class_def from input i (the bytes after the trait header)
HistObject(r, d, i, class_def) ==
    [r EXCEPT !.d.hist.objs = @ \cup
        {[i |-> i, names |-> class_def.static_properties,
          attributes |-> class_def.attributes, st |-> r.st, e |-> r.e,
          rest |-> r.i,
          fields |-> IF r.st = "ok" THEN r.d.heap[r.v].val.elements ELSE <<>>,
          traits |-> Len(d.trait_reference_table)]}]

\* An inline header was read and the slot index reserved for it
HistOpen(d, index, kind) ==
    [d EXCEPT !.hist.inline_seen = @ + 1,
              !.hist.kinds = Append(@, kind),
              !.hist.open = Append(@, [idx |-> index, kind |-> kind])]

\* d1 is d after the slot of an inline complex value was reserved, with at
\* bytes of input left after its header: the index the new handle has in the
\* table, and the indices of the values under construction around it
HistReserve(d1, d, at) ==
    [d1 EXCEPT !.hist.opened = @ \cup
        {[idx |-> (CHOOSE k \in 1..Len(d1.object_reference_table) :
                      d1.object_reference_table[k] = NewHandle(d)) - 1,
          at |-> at,
          parents |-> {d.hist.open[k].idx : k \in 1..Len(d.hist.open)}]}]

\* r is the outcome of parse_class_def on d with the header length and the
\* input i
HistClassDef(r, d, length, i) ==
    [r EXCEPT !.d.hist.defs = @ \cup
        {[length |-> length, i |-> i, st |-> r.st, e |-> r.e, rest |-> r.i,
          name |-> IF r.st = "ok" THEN r.v.name ELSE <<>>,
          attributes |-> IF r.st = "ok" THEN r.v.attributes ELSE {},
          static_properties |-> IF r.st = "ok" THEN r.v.static_properties ELSE <<>>,
          before |-> d.trait_reference_table,
          after |-> r.d.trait_reference_table]}]

\* The inline decode of slot index returns handle h
HistReturn(d, index, h) ==
    [d EXCEPT !.hist.open = SubSeq(@, 1, Len(@) - 1),
              !.hist.returned =
                  [k \in 1..(IF index + 1 > Len(@) THEN index + 1 ELSE Len(@)) |->
                      IF k = index + 1 THEN h
                      ELSE IF k <= Len(@) THEN @[k] ELSE 0]]

\* An object reference to slot index resolved to handle h
HistRef(d, index, h) ==
    [d EXCEPT !.hist.refs = @ \cup {<<index, h>>},
              !.hist.cyc = @ \cup {o \in {d.hist.open[k] : k \in 1..Len(d.hist.open)} :
                                      o.idx = index}]

-----------------------------------------------------------------------------
(* Scalars *)

\* An error (or a panic) of a callee leaves the function: the locals that
\* hold handles are dropped on the way out
Propagate(r, locals) ==
    [st |-> r.st, i |-> <<>>, v |-> <<>>,
     d |-> IF r.st = "panic" THEN r.d ELSE Drop(r.d, locals), e |-> r.e]

parse_element_int(d, i) ==
    Bind(read_int_signed(i), LAMBDA r :
    IF r.st # "ok" THEN DErr(d, r.e)
    ELSE DOk(RcNew(d, Integer(r.v)), r.i, NewHandle(d)))

parse_element_number(d, i) ==
    LET r == be_bytes(i, 8)
    IN IF r.st # "ok" THEN DErr(d, r.e)
       ELSE DOk(RcNew(d, Number(r.v)), r.i, NewHandle(d))

\* nom's be_i32: four big-endian bytes as a two's complement number
be_i32(i) ==
    LET r == be_bytes(i, 4)
    IN IF r.st # "ok" THEN r
       ELSE POk(r.i, (IF r.v[1] >= 128 THEN r.v[1] - 256 ELSE r.v[1]) * 16777216
                     + r.v[2] * 65536 + r.v[3] * 256 + r.v[4])

\* nom's be_u32 and be_f64: the value is kept as its big-endian bytes
be_u32(i) == be_bytes(i, 4)

be_f64(i) == be_bytes(i, 8)

-----------------------------------------------------------------------------
(* Byte streams and strings *)

\* The Length::Size(len) arm of parse_byte_stream
byte_stream_size_InternEmpty(d, i, len) ==
    LET t == take(i, len)
    IN IF t.st # "ok" THEN DFail(d, t)
       ELSE DOk([d EXCEPT !.string_reference_table = Append(@, t.v)], t.i, t.v)

byte_stream_size_NoIntern(d, i, len) ==
    IF len = 0 THEN DOk(d, i, <<>>)
    ELSE LET t == take(i, len)
         IN IF t.st # "ok" THEN DFail(d, t)
            ELSE DOk(d, t.i, t.v)

byte_stream_size_Prepend(d, i, len) ==
    IF len = 0 THEN DOk(d, i, <<>>)
    ELSE LET t == take(i, len)
         IN IF t.st # "ok" THEN DFail(d, t)
            ELSE DOk([d EXCEPT !.string_reference_table = <<t.v>> \o @], t.i, t.v)

byte_stream_size(d, i, len) ==
    IF len = 0 THEN DOk(d, i, <<>>)
    ELSE LET t == take(i, len)
         IN IF t.st # "ok" THEN DFail(d, t)
            ELSE DOk([d EXCEPT !.string_reference_table = Append(@, t.v)], t.i, t.v)

\* The Length::Reference(index) arm of parse_byte_stream
byte_stream_reference(d, i, index) ==
    LET ref_result == VecGet(d.string_reference_table, index)
    IN IF ref_result = <<>> THEN DErr(d, "Digit")
       ELSE DOk(d, i, ref_result[1])

parse_byte_stream(d, i) ==
    Bind(read_length(i), LAMBDA len :
    IF len.st # "ok" THEN DErr(d, len.e)
    ELSE IF len.v.kind = "Size"
         THEN HistByteStream(byte_stream_size(d, len.i, len.v.n), d, len.v, len.i, i)
         ELSE HistLookup(
                  HistByteStream(byte_stream_reference(d, len.i, len.v.n),
                                 d, len.v, len.i, i),
                  d, "string", len.v.n))

parse_string(d, i) ==
    Bind(parse_byte_stream(d, i), LAMBDA r :
    IF r.st # "ok" THEN r
    ELSE IF ~from_utf8_ok(r.v) THEN DErr(r.d, "Alpha")
    ELSE r)

parse_element_string_Slot(d, i) ==
    Bind(parse_string(d, i), LAMBDA r :
    IF r.st # "ok" THEN r
    ELSE DOk([RcNew(r.d, String(r.v)) EXCEPT
                  !.object_reference_table = Append(@, NewHandle(r.d))],
             r.i, NewHandle(r.d)))

parse_element_string(d, i) ==
    Bind(parse_string(d, i), LAMBDA r :
    IF r.st # "ok" THEN r
    ELSE DOk(RcNew(r.d, String(r.v)), r.i, NewHandle(r.d)))

-----------------------------------------------------------------------------
(* many_m_n(m, n, f) of nom, for the parsers the decoder passes to it *)

RECURSIVE parse_single_element(_, _)

\* The parser f, by name
Apply(f, d, i) ==
    CASE f = "parse_single_element" -> parse_single_element(d, i)
      [] f = "parse_string" -> parse_string(d, i)
      [] f = "be_i32" -> LET r == be_i32(i)
                         IN IF r.st = "ok" THEN DOk(d, r.i, r.v) ELSE DErr(d, r.e)
      [] f = "be_u32" -> LET r == be_u32(i)
                         IN IF r.st = "ok" THEN DOk(d, r.i, r.v) ELSE DErr(d, r.e)
      [] f = "be_f64" -> LET r == be_f64(i)
                         IN IF r.st = "ok" THEN DOk(d, r.i, r.v) ELSE DErr(d, r.e)

\* The handles among the results of f
Owned(f, res) == IF f = "parse_single_element" THEN res ELSE <<>>

RECURSIVE many_m_n_loop(_, _, _, _, _, _, _)
many_m_n_loop(m, n, f, d, i, res, count) ==
    IF count >= n THEN DOk(d, i, res)
    ELSE Bind(Apply(f, d, i), LAMBDA r :
         IF r.st = "panic" THEN r
         ELSE IF r.st = "incomplete" THEN Propagate(r, Owned(f, res))
         ELSE IF r.st = "err"
              THEN IF count < m THEN Propagate(r, Owned(f, res))
                   ELSE DOk(r.d, i, res)
         ELSE IF r.i = i
              THEN Propagate(DErr(r.d, "ManyMN"), Owned(f, Append(res, r.v)))
         ELSE many_m_n_loop(m, n, f, r.d, r.i, Append(res, r.v), count + 1))

many_m_n(m, n, f, d, i) == many_m_n_loop(m, n, f, d, i, <<>>, 0)

-----------------------------------------------------------------------------
(* Traits *)

\* The trait-reference branch of parse_class_def
class_def_reference(d, i, len_usize) ==
    LET class_def == VecGet(d.trait_reference_table, len_usize)
    IN IF class_def = <<>> THEN DErr(d, "Digit")
       ELSE DOk(d, i, class_def[1])

parse_class_def_CountFromEncoding(d, length, i) ==
    HistClassDef(
        IF BitAnd(length, REFERENCE_FLAG) = 0
        THEN HistLookup(class_def_reference(d, i, Shr(length, 1)),
                        d, "trait", Shr(length, 1))
        ELSE Bind(parse_byte_stream(d, i), LAMBDA n :
             IF n.st # "ok" THEN n
             ELSE IF n.v # <<>> /\ ~from_utf8_ok(n.v) THEN DErr(n.d, "Alpha")
             ELSE LET len == Shr(length, 1)
                      encoding == BitAnd(len, 3)
                      attributes_count == Shr(len, 1)
                  IN Bind(many_m_n(attributes_count, attributes_count,
                                   "parse_string", n.d, n.i), LAMBDA p :
                     IF p.st # "ok" THEN p
                     ELSE LET is_external == BitAnd(encoding, 1) = 1
                              is_dynamic == BitAnd(encoding, 2) = 2
                              attributes ==
                                  (IF is_external THEN {"External"} ELSE {})
                                  \cup (IF is_dynamic THEN {"Dynamic"} ELSE {})
                              class_def == ClassDefinition(n.v, attributes, p.v)
                          IN DOk([p.d EXCEPT !.trait_reference_table =
                                                 Append(@, class_def)],
                                 p.i, class_def))),
        d, length, i)

parse_class_def(d, length, i) ==
    HistClassDef(
        IF BitAnd(length, REFERENCE_FLAG) = 0
        THEN HistLookup(class_def_reference(d, i, Shr(length, 1)),
                        d, "trait", Shr(length, 1))
        ELSE Bind(parse_byte_stream(d, i), LAMBDA n :
             IF n.st # "ok" THEN n
             ELSE IF n.v # <<>> /\ ~from_utf8_ok(n.v) THEN DErr(n.d, "Alpha")
             ELSE LET len == Shr(length, 1)
                      encoding == BitAnd(len, 3)
                      attributes_count == Shr(len, 2)
                  IN Bind(many_m_n(attributes_count, attributes_count,
                                   "parse_string", n.d, n.i), LAMBDA p :
                     IF p.st # "ok" THEN p
                     ELSE LET is_external == BitAnd(encoding, 1) = 1
                              is_dynamic == BitAnd(encoding, 2) = 2
                              attributes ==
                                  (IF is_external THEN {"External"} ELSE {})
                                  \cup (IF is_dynamic THEN {"Dynamic"} ELSE {})
                              class_def == ClassDefinition(n.v, attributes, p.v)
                          IN DOk([p.d EXCEPT !.trait_reference_table =
                                                 Append(@, class_def)],
                                 p.i, class_def))),
        d, length, i)

-----------------------------------------------------------------------------
(* The reference-or-value combinator and the closures passed to it *)

\* parse_element_byte_array's closure
byte_array_parser(d, i, len) ==
    LET r == take(i, len)
    IN IF r.st # "ok" THEN DFail(d, r) ELSE DOk(d, r.i, ByteArray(r.v))

\* The closures of parse_element_vector_int, _uint and _double: f reads one
\* item of `width` bytes
vector_parser_NoGuard(d, i, len, width, f) ==
    LET fixed_length == be_u8(i)
    IN IF fixed_length.st # "ok" THEN DErr(d, fixed_length.e)
       ELSE Bind(many_m_n(len, len, f, d, fixed_length.i), LAMBDA r :
            IF r.st # "ok" THEN r
            ELSE DOk(r.d, r.i,
                     [t |-> CASE f = "be_i32" -> "VectorInt"
                              [] f = "be_u32" -> "VectorUInt"
                              [] f = "be_f64" -> "VectorDouble",
                      items |-> r.v, fixed |-> fixed_length.v = 1]))

vector_parser(d, i, len, width, f) ==
    IF Len(i) < len * width THEN DErr(d, "TooLarge")
    ELSE LET fixed_length == be_u8(i)
         IN IF fixed_length.st # "ok" THEN DErr(d, fixed_length.e)
            ELSE Bind(many_m_n(len, len, f, d, fixed_length.i), LAMBDA r :
                 IF r.st # "ok" THEN r
                 ELSE DOk(r.d, r.i,
                          [t |-> CASE f = "be_i32" -> "VectorInt"
                                   [] f = "be_u32" -> "VectorUInt"
                                   [] f = "be_f64" -> "VectorDouble",
                           items |-> r.v, fixed |-> fixed_length.v = 1]))

\* parse_element_object_vector's closure
object_vector_parser(d, i, len) ==
    LET fixed_length == be_u8(i)
    IN IF fixed_length.st # "ok" THEN DErr(d, fixed_length.e)
       ELSE Bind(parse_string(d, fixed_length.i), LAMBDA object_type_name :
            IF object_type_name.st # "ok" THEN object_type_name
            ELSE Bind(many_m_n(len, len, "parse_single_element",
                               object_type_name.d, object_type_name.i),
                      LAMBDA elems :
                 IF elems.st # "ok" THEN elems
                 ELSE DOk(elems.d, elems.i,
                          VectorObject(elems.v, object_type_name.v,
                                       fixed_length.v = 1))))

\* The while loop of parse_element_array's closure
RECURSIVE array_assoc_loop(_, _, _, _)
array_assoc_loop(d, i, key, elements) ==
    IF key = <<>> THEN DOk(d, i, elements)
    ELSE Bind(parse_single_element(d, i), LAMBDA e :
         IF e.st # "ok" THEN Propagate(e, ElementValues(elements))
         ELSE IF ~from_utf8_ok(key)
              THEN Propagate(DErr(e.d, "Alpha"),
                             <<e.v>> \o ElementValues(elements))
         ELSE Bind(parse_byte_stream(e.d, e.i), LAMBDA k :
              IF k.st # "ok"
              THEN Propagate(k, ElementValues(Append(elements, Element(key, e.v))))
              ELSE array_assoc_loop(k.d, k.i, k.v,
                                    Append(elements, Element(key, e.v)))))

\* parse_element_array's closure
array_parser(d, i, length_usize) ==
    IF Len(i) < length_usize THEN DErr(d, "TooLarge")
    ELSE Bind(parse_byte_stream(d, i), LAMBDA key :
         IF key.st # "ok" THEN key
         ELSE IF key.v = <<>>
              THEN Bind(many_m_n(length_usize, length_usize,
                                 "parse_single_element", key.d, key.i),
                        LAMBDA elements :
                   IF elements.st # "ok" THEN elements
                   ELSE DOk(elements.d, elements.i, StrictArray(elements.v)))
         ELSE Bind(array_assoc_loop(key.d, key.i, key.v, <<>>), LAMBDA elements :
              IF elements.st # "ok" THEN elements
              ELSE Bind(many_m_n(length_usize, length_usize,
                                 "parse_single_element", elements.d, elements.i),
                        LAMBDA el :
                   IF el.st # "ok"
                   THEN Propagate(el, ElementValues(elements.v))
                   ELSE DOk(el.d, el.i,
                            ECMAArray(el.v, elements.v, Len(elements.v))))))

\* pairs.chunks_exact(2) cloned into (key, value) tuples
chunks_exact_2(pairs) ==
    [k \in 1..(Len(pairs) \div 2) |-> <<pairs[2 * k - 1], pairs[2 * k]>>]

\* parse_element_dict's closure
dict_parser(d, i, len) ==
    LET weak_keys == be_u8(i)
    IN IF weak_keys.st # "ok" THEN DErr(d, weak_keys.e)
       ELSE IF Len(weak_keys.i) < len * 2 THEN DErr(d, "TooLarge")
       ELSE Bind(many_m_n(len * 2, len * 2, "parse_single_element",
                          d, weak_keys.i), LAMBDA pairs :
            IF pairs.st # "ok" THEN pairs
            ELSE DOk(pairs.d, pairs.i,
                     Dictionary(chunks_exact_2(pairs.v), weak_keys.v = 1)))

\* parse_element_date's closure
date_parser(d, i, len) ==
    LET ms == be_f64(i)
    IN IF ms.st # "ok" THEN DErr(d, ms.e) ELSE DOk(d, ms.i, Date(ms.v, <<>>))

\* parse_element_xml's closure: take_str! takes the bytes and checks UTF-8
xml_parser(d, i, len, string) ==
    LET data == take(i, len)
    IN IF data.st # "ok" THEN DFail(d, data)
       ELSE IF ~from_utf8_ok(data.v) THEN DErr(d, "TakeStr")
       ELSE DOk(d, data.i, XML(data.v, string))

\* The closure `parser`, by the name of the function that passes it
parser(which, d, i, len) ==
    CASE which = "byte_array" -> byte_array_parser(d, i, len)
      [] which = "vector_int" -> vector_parser(d, i, len, 4, "be_i32")
      [] which = "vector_uint" -> vector_parser(d, i, len, 4, "be_u32")
      [] which = "vector_double" -> vector_parser(d, i, len, 8, "be_f64")
      [] which = "object_vector" -> object_vector_parser(d, i, len)
      [] which = "array" -> array_parser(d, i, len)
      [] which = "dict" -> dict_parser(d, i, len)
      [] which = "date" -> date_parser(d, i, len)
      [] which = "xml" -> xml_parser(d, i, len, FALSE)
      [] which = "xml_string" -> xml_parser(d, i, len, TRUE)

\* object_reference_table.push(Rc::new(v)): the new slot's index is the
\* table's length before the push
PushObject_Twice(d, v) ==
    LET d1 == RcNew(RcNew(d, v), v)
    IN [d1 EXCEPT !.object_reference_table = Append(Append(@, NewHandle(d)), NewHandle(d) + 1)]

PushObject_AtFront(d, v) ==
    [RcNew(d, v) EXCEPT !.object_reference_table = <<NewHandle(d)>> \o @]

PushObject(d, v) ==
    [RcNew(d, v) EXCEPT !.object_reference_table = Append(@, NewHandle(d))]

\* The object-reference arm of parse_reference_or_val and of
\* parse_element_object: a clone of the handle in the slot
object_reference(d, i, index) ==
    LET ref_result == VecGet(d.object_reference_table, index)
    IN IF ref_result = <<>> THEN DErr(d, "Digit")
       ELSE DOk(HistRef(RcClone(d, ref_result[1]), index, ref_result[1]),
                i, ref_result[1])

parse_reference_or_val_RollBack(d, i, which) ==
    Bind(read_length(i), LAMBDA len :
    IF len.st # "ok" THEN DErr(d, len.e)
    ELSE IF len.v.kind = "Reference"
         THEN HistLookup(object_reference(d, len.i, len.v.n), d, "object", len.v.n)
         ELSE LET index == Len(d.object_reference_table)
                  d1 == HistReserve(HistOpen(PushObject(d, Null), index, "val"),
                                    d, Len(len.i))
              IN Bind(HistAggregate(parser(which, d1, len.i, len.v.n),
                                    d1, which, len.i, len.v.n), LAMBDA res :
                 HistValue(
                 IF res.st # "ok"
                 THEN [res EXCEPT !.d.object_reference_table =
                                      d.object_reference_table]
                 ELSE LET slot == VecGet(res.d.object_reference_table, index)
                      IN IF slot = <<>>
                         THEN DPanic(res.d, "Index not in reference table")
                         ELSE IF RcGetMut(res.d, slot[1]) = <<>>
                              THEN DPanic(res.d, "Reference still held to rc")
                         ELSE DOk(HistReturn(
                                      RcClone([res.d EXCEPT !.heap[slot[1]].val = res.v],
                                              slot[1]),
                                      index, slot[1]),
                                  res.i, slot[1]),
                 res, which, len.i, len.v.n)))

parse_reference_or_val(d, i, which) ==
    Bind(read_length(i), LAMBDA len :
    IF len.st # "ok" THEN DErr(d, len.e)
    ELSE IF len.v.kind = "Reference"
         THEN HistLookup(object_reference(d, len.i, len.v.n), d, "object", len.v.n)
         ELSE LET index == Len(d.object_reference_table)
                  d1 == HistReserve(HistOpen(PushObject(d, Null), index, "val"),
                                    d, Len(len.i))
              IN Bind(HistAggregate(parser(which, d1, len.i, len.v.n),
                                    d1, which, len.i, len.v.n), LAMBDA res :
                 HistValue(
                 IF res.st # "ok" THEN res
                 ELSE LET slot == VecGet(res.d.object_reference_table, index)
                      IN IF slot = <<>>
                         THEN DPanic(res.d, "Index not in reference table")
                         ELSE IF RcGetMut(res.d, slot[1]) = <<>>
                              THEN DPanic(res.d, "Reference still held to rc")
                         ELSE DOk(HistReturn(
                                      RcClone([res.d EXCEPT !.heap[slot[1]].val = res.v],
                                              slot[1]),
                                      index, slot[1]),
                                  res.i, slot[1]),
                 res, which, len.i, len.v.n)))

parse_element_byte_array(d, i) == parse_reference_or_val(d, i, "byte_array")

parse_element_vector_int(d, i) == parse_reference_or_val(d, i, "vector_int")

parse_element_vector_uint(d, i) == parse_reference_or_val(d, i, "vector_uint")

parse_element_vector_double(d, i) == parse_reference_or_val(d, i, "vector_double")

parse_element_object_vector(d, i) == parse_reference_or_val(d, i, "object_vector")

parse_element_array(d, i) == parse_reference_or_val(d, i, "array")

parse_element_dict(d, i) == parse_reference_or_val(d, i, "dict")

parse_element_date(d, i) == parse_reference_or_val(d, i, "date")

parse_element_xml(d, i, string) ==
    parse_reference_or_val(d, i, IF string THEN "xml_string" ELSE "xml")

-----------------------------------------------------------------------------
(* Objects *)

\* The for loop of parse_object_static over the names not yet read
RECURSIVE parse_object_static_loop(_, _, _, _)
parse_object_static_loop(d, i, names, elements) ==
    IF names = <<>> THEN DOk(d, i, elements)
    ELSE Bind(parse_single_element(d, i), LAMBDA e :
         IF e.st # "ok" THEN Propagate(e, ElementValues(elements))
         ELSE parse_object_static_loop(e.d, e.i, Tail(names),
                                       Append(elements, Element(Head(names), e.v))))

parse_object_static(d, i, class_def) ==
    parse_object_static_loop(d, i, class_def.static_properties, <<>>)

\* The registered external decoder: it reads one nested element through the
\* decoder it is handed and returns it as its only custom element
ExternalDecoder(d, i) ==
    Bind(parse_single_element(d, i), LAMBDA e :
    IF e.st # "ok" THEN e
    ELSE DOk(e.d, e.i, <<Element(<<>>, e.v)>>))

\* The "Read dynamic" while loop of parse_element_object
RECURSIVE dynamic_loop(_, _, _, _)
dynamic_loop(d, j, attr, elements) ==
    IF attr = <<>> THEN DOk(d, j, elements)
    ELSE IF ~from_utf8_ok(attr)
         THEN Propagate(DErr(d, "Alpha"), ElementValues(elements))
    ELSE Bind(parse_single_element(d, j), LAMBDA val :
         IF val.st # "ok" THEN Propagate(val, ElementValues(elements))
         ELSE Bind(parse_byte_stream(val.d, val.i), LAMBDA attr2 :
              IF attr2.st # "ok"
              THEN Propagate(attr2,
                             ElementValues(Append(elements, Element(attr, val.v))))
              ELSE dynamic_loop(attr2.d, attr2.i, attr2.v,
                                Append(elements, Element(attr, val.v)))))

\* The Dynamic branch of parse_element_object: the static properties, then
\* the dynamic fields up to the empty name
object_dynamic(d, i, class_def) ==
    IF "Dynamic" \in class_def.attributes
    THEN Bind(parse_object_static(d, i, class_def), LAMBDA x :
         IF x.st # "ok" THEN x
         ELSE Bind(parse_byte_stream(x.d, x.i), LAMBDA attr :
              IF attr.st # "ok"
              THEN Propagate(attr, ElementValues(x.v))
              ELSE dynamic_loop(attr.d, attr.i, attr.v, x.v)))
    ELSE DOk(d, i, <<>>)

\* The fields of a non-external object: the Dynamic branch, then the branch
\* for an empty attribute set
object_fields(d, i, class_def) ==
    Bind(object_dynamic(d, i, class_def), LAMBDA dyn :
    IF dyn.st # "ok" THEN dyn
    ELSE IF class_def.attributes = {}
         THEN Bind(parse_object_static(dyn.d, dyn.i, class_def), LAMBDA x :
              IF x.st # "ok" THEN Propagate(x, ElementValues(dyn.v))
              ELSE DOk(x.d, x.i, dyn.v \o x.v))
         ELSE dyn)

\* The External branch of parse_element_object for the slot at index
external_object_Fallback(d, i, class_def, index) ==
    HistExternal(
        Bind(ExternalDecoder(HistInvoke(d), i), LAMBDA v :
        IF v.st # "ok" THEN v
        ELSE LET d1 == RcNew(v.d, Custom(v.v, <<>>, <<class_def>>))
                 d2 == [d1 EXCEPT !.hist.ext_done = @ \cup {index}]
             IN DOk(HistReturn(d2, index, NewHandle(v.d)), v.i, NewHandle(v.d))),
        d, class_def, i, index)

external_object(d, i, class_def, index) ==
    HistExternal(
        IF class_def.name \in d.external_decoders
        THEN Bind(ExternalDecoder(HistInvoke(d), i), LAMBDA v :
             IF v.st # "ok" THEN v
             ELSE LET d1 == RcNew(v.d, Custom(v.v, <<>>, <<class_def>>))
                      d2 == [d1 EXCEPT !.hist.ext_done = @ \cup {index}]
                  IN DOk(HistReturn(d2, index, NewHandle(v.d)), v.i, NewHandle(v.d)))
        ELSE DErr(d, "Tag"),
        d, class_def, i, index)

\* parse_element_object after the class definition was written to the slot:
\* the External branch returns early, the others patch the slot's elements
object_body_DynamicWins(d, i, class_def, index, slot) ==
    IF class_def.attributes = {"External"}
    THEN external_object(d, i, class_def, index)
    ELSE HistObject(
         Bind(object_fields(d, i, class_def), LAMBDA elements :
         IF elements.st # "ok" THEN elements
         ELSE IF RcGetMut(elements.d, slot) = <<>>
              THEN DPanic(elements.d, "Unable to get Object")
         ELSE DOk(HistReturn(
                      RcClone([elements.d EXCEPT !.heap[slot].val.elements =
                                                     elements.v],
                              slot),
                      index, slot),
                  elements.i, slot)),
         d, i, class_def)

object_body(d, i, class_def, index, slot) ==
    IF "External" \in class_def.attributes
    THEN external_object(d, i, class_def, index)
    ELSE HistObject(
         Bind(object_fields(d, i, class_def), LAMBDA elements :
         IF elements.st # "ok" THEN elements
         ELSE IF RcGetMut(elements.d, slot) = <<>>
              THEN DPanic(elements.d, "Unable to get Object")
         ELSE DOk(HistReturn(
                      RcClone([elements.d EXCEPT !.heap[slot].val.elements =
                                                     elements.v],
                              slot),
                      index, slot),
                  elements.i, slot)),
         d, i, class_def)

parse_element_object_NoClassDef(d, i) ==
    Bind(read_int(i), LAMBDA length :
    IF length.st # "ok" THEN DErr(d, length.e)
    ELSE IF BitAnd(length.v, REFERENCE_FLAG) = 0
         THEN HistLookup(object_reference(d, length.i, Shr(length.v, 1)),
                         d, "object", Shr(length.v, 1))
         ELSE LET index == Len(d.object_reference_table)
              IN Bind(parse_class_def(
                          HistReserve(
                              HistOpen(PushObject(d, Object(<<>>, <<>>)), index, "obj"),
                              d, Len(length.i)),
                          Shr(length.v, 1), length.i), LAMBDA class_def :
                 IF class_def.st # "ok" THEN class_def
                 ELSE LET slot == VecGet(class_def.d.object_reference_table, index)
                      IN IF slot = <<>> THEN DPanic(class_def.d, "Index invalid")
                         ELSE IF RcGetMut(class_def.d, slot[1]) = <<>>
                              THEN DPanic(class_def.d, "Unable to get Object")
                         ELSE object_body(
                                  class_def.d,
                                  class_def.i, class_def.v, index, slot[1])))

parse_element_object(d, i) ==
    Bind(read_int(i), LAMBDA length :
    IF length.st # "ok" THEN DErr(d, length.e)
    ELSE IF BitAnd(length.v, REFERENCE_FLAG) = 0
         THEN HistLookup(object_reference(d, length.i, Shr(length.v, 1)),
                         d, "object", Shr(length.v, 1))
         ELSE LET index == Len(d.object_reference_table)
              IN Bind(parse_class_def(
                          HistReserve(
                              HistOpen(PushObject(d, Object(<<>>, <<>>)), index, "obj"),
                              d, Len(length.i)),
                          Shr(length.v, 1), length.i), LAMBDA class_def :
                 IF class_def.st # "ok" THEN class_def
                 ELSE LET slot == VecGet(class_def.d.object_reference_table, index)
                      IN IF slot = <<>> THEN DPanic(class_def.d, "Index invalid")
                         ELSE IF RcGetMut(class_def.d, slot[1]) = <<>>
                              THEN DPanic(class_def.d, "Unable to get Object")
                         ELSE object_body(
                                  [class_def.d EXCEPT !.heap[slot[1]].val.class_def =
                                                          <<class_def.v>>],
                                  class_def.i, class_def.v, index, slot[1])))

-----------------------------------------------------------------------------
(* Type dispatch *)

\* TypeMarker::try_from: the marker of byte b, if it is one
TypeMarker_try_from(b) ==
    LET names == <<"Undefined", "Null", "False", "True", "Integer", "Number",
                   "String", "XML", "Date", "Array", "Object", "XmlString",
                   "ByteArray", "VectorInt", "VectorUInt", "VectorDouble",
                   "VectorObject", "Dictionary">>
    IN IF b < Len(names) THEN <<names[b + 1]>> ELSE <<>>

read_type_marker_AnyByte(i) ==
    LET type_ == be_u8(i)
    IN IF type_.st # "ok" THEN type_
       ELSE IF TypeMarker_try_from(type_.v) # <<>>
            THEN POk(type_.i, TypeMarker_try_from(type_.v)[1])
            ELSE POk(type_.i, "Null")

read_type_marker(i) ==
    LET type_ == be_u8(i)
    IN IF type_.st # "ok" THEN type_
       ELSE IF TypeMarker_try_from(type_.v) # <<>>
            THEN POk(type_.i, TypeMarker_try_from(type_.v)[1])
            ELSE PErr("HexDigit")

parse_single_element(d, i) ==
    HistMarker(Bind(read_type_marker(i), LAMBDA m :
    IF m.st # "ok" THEN DErr(d, m.e)
    ELSE CASE m.v = "Undefined" -> DOk(RcNew(d, Undefined), m.i, NewHandle(d))
           [] m.v = "Null" -> DOk(RcNew(d, Null), m.i, NewHandle(d))
           [] m.v = "False" -> DOk(RcNew(d, Bool(FALSE)), m.i, NewHandle(d))
           [] m.v = "True" -> DOk(RcNew(d, Bool(TRUE)), m.i, NewHandle(d))
           [] m.v = "Integer" -> parse_element_int(d, m.i)
           [] m.v = "Number" -> parse_element_number(d, m.i)
           [] m.v = "String" -> parse_element_string(d, m.i)
           [] m.v = "XML" -> parse_element_xml(d, m.i, FALSE)
           [] m.v = "Date" -> parse_element_date(d, m.i)
           [] m.v = "Array" -> parse_element_array(d, m.i)
           [] m.v = "Object" -> parse_element_object(d, m.i)
           [] m.v = "XmlString" -> parse_element_xml(d, m.i, TRUE)
           [] m.v = "ByteArray" -> parse_element_byte_array(d, m.i)
           [] m.v = "VectorObject" -> parse_element_object_vector(d, m.i)
           [] m.v = "VectorInt" -> parse_element_vector_int(d, m.i)
           [] m.v = "VectorUInt" -> parse_element_vector_uint(d, m.i)
           [] m.v = "VectorDouble" -> parse_element_vector_double(d, m.i)
           [] m.v = "Dictionary" -> parse_element_dict(d, m.i)), d, i)

-----------------------------------------------------------------------------
(* Bodies *)

\* crate::PADDING
PADDING == <<0, 0>>

\* nom's tag(t)
tag(t, i) ==
    IF Len(i) >= Len(t) /\ SubSeq(i, 1, Len(t)) = t
    THEN POk(SubSeq(i, Len(t) + 1, Len(i)), t)
    ELSE PErr("Tag")

parse_element(d, i) ==
    HistElement(
        Bind(parse_string(d, i), LAMBDA name :
        IF name.st # "ok" THEN name
        ELSE Bind(parse_single_element(name.d, name.i), LAMBDA v :
             IF v.st # "ok" THEN v
             ELSE DOk(v.d, v.i, Element(name.v, v.v)))),
        i)

\* The loop of nom's separated_list0(tag(PADDING), parse_element): an
\* Err::Error of the separator or of the element ends the list with Ok
RECURSIVE separated_list0_loop(_, _, _)
separated_list0_loop(d, i, res) ==
    LET sep == tag(PADDING, i)
    IN IF sep.st # "ok" THEN DOk(d, i, res)
       ELSE IF Len(sep.i) = Len(i)
            THEN Propagate(DErr(d, "SeparatedList"), ElementValues(res))
       ELSE Bind(parse_element(d, sep.i), LAMBDA o :
            IF o.st = "panic" THEN o
            ELSE IF o.st = "incomplete" THEN Propagate(o, ElementValues(res))
            ELSE IF o.st = "err" THEN DOk(o.d, i, res)
            ELSE separated_list0_loop(o.d, o.i, Append(res, o.v)))

separated_list0(d, i) ==
    Bind(parse_element(d, i), LAMBDA o :
    IF o.st \in {"panic", "incomplete"} THEN o
    ELSE IF o.st = "err" THEN DOk(o.d, i, <<>>)
    ELSE separated_list0_loop(o.d, o.i, <<o.v>>))

parse_body(d, i) ==
    Bind(separated_list0(d, i), LAMBDA elements :
    IF elements.st # "ok" THEN elements
    ELSE LET pad == tag(PADDING, elements.i)
         IN IF pad.st # "ok"
            THEN Propagate(DErr(elements.d, pad.e), ElementValues(elements.v))
            ELSE DOk(elements.d, pad.i, elements.v))

-----------------------------------------------------------------------------
(* The input streams *)

\* Bytes of the enumerated streams: the markers Undefined, Null, True,
\* String, XML, Array, Object and XmlString, which also read as the length
\* fields Reference(0), Size(0), Size(1), Reference(3), Size(3), Size(4),
\* Reference(5) and Size(5), and 3, 7 and 11 as the headers of an inline
\* object with an inline sealed, external and dynamic trait
Alphabet == {0, 1, 3, 6, 7, 9, 10, 11}

Streams(n) == UNION {[1..k -> Alphabet] : k \in 1..n}

\* "A": the class name with a registered external decoder; "B" has none
ClassA == <<65>>

ClassB == <<66>>

Scenarios ==
    { <<6, 7, 102, 111, 111, 6, 0>>,                    \* "foo", then string ref 0
      <<6, 1, 6, 1>>,                                   \* two empty strings
      <<10, 11, 1, 9, 115, 101, 108, 102, 10, 0, 1>>,   \* dynamic object, self -> ref 0
      <<9, 5, 3, 97, 4, 1, 1, 4, 10, 4, 20>>,           \* ECMA array a -> 1; 10, 20
      <<10, 7, 3, 65, 4, 5, 10, 0>>,                    \* external A, then object ref 0
      <<10, 7, 3, 65, 10, 0>>,                          \* external A reading ref 0
      <<10, 7, 3, 66, 4, 5>>,                           \* external B: not registered
      <<9, 5, 1, 10, 7, 3, 65, 6, 3, 120, 6, 2>>,       \* array [external A reading "x", string ref 1]
      <<10, 15, 3, 65, 4, 5, 1>>,                       \* external and dynamic
      <<10, 15, 3, 65, 4, 5, 10, 1, 4, 6>>,             \* the same; then by trait ref 0
      <<10, 7, 3, 65, 4, 5, 10, 1, 4, 6>>,              \* external A; then by trait ref 0
      <<10, 15, 3, 65, 18>>,                            \* external and dynamic; no marker
      <<9, 3, 1, 9, 0>>,                                \* array holding itself
      <<9, 3, 1, 9, 3, 1, 9, 0>>,                       \* array in array, ref 0 inside
      <<9, 1, 1, 9, 0, 9, 0>>,                          \* empty array, ref 0 twice
      <<9, 3, 1, 9, 1, 1, 9, 2, 9, 0>>,                 \* nested arrays, refs 1 and 0
      <<17, 3, 0, 4, 1, 4, 2, 17, 0>>,                  \* dictionary, then ref 0
      <<17, 3, 0, 17, 0, 1>>,                           \* dictionary holding itself
      <<16, 3, 0, 1, 1, 16, 0>>,                        \* object vector, then ref 0
      <<16, 3, 0, 1, 16, 0>>,                           \* object vector holding itself
      <<10, 19, 1, 3, 120, 4, 7, 10, 1, 4, 8, 10, 0>>,  \* sealed x; trait ref 0; ref 0
      <<10, 19, 1, 3, 120, 10, 0>>,                     \* sealed object, x -> ref 0
      <<10, 11, 1, 3, 120, 4, 1, 0, 1, 10, 2>>,         \* dynamic x, string ref 0; ref 1
      <<8, 1, 0, 0, 0, 0, 0, 0, 0, 0, 8, 0>>,           \* date, then ref 0
      <<7, 3, 120, 11, 3, 121, 11, 0, 7, 2>>,           \* XML, XML string, refs
      <<12, 5, 1, 2, 12, 0>>,                           \* byte array, then ref 0
      <<13, 3, 0, 255, 255, 255, 255, 13, 0>>,          \* int vector, then ref 0
      <<14, 3, 1, 0, 0, 0, 7, 14, 0>>,                  \* uint vector, then ref 0
      <<15, 3, 0, 0, 0, 0, 0, 0, 0, 0, 1, 15, 0>>,      \* double vector, then ref 0
      <<15, 7, 0, 0, 0, 0, 0, 0, 0, 0, 1>>,             \* double vector, too short
      <<15, 255, 255, 127, 0, 0, 0, 0, 0, 0, 0, 0, 0, 0, 0, 0, 0, 0, 0, 0>>,
                          \* double vector of 1048575 items, 16 bytes of input
      <<13, 5, 0, 0, 0, 0, 1>>,                         \* int vector, too short
      <<14, 5, 0, 0, 0, 0, 1>>,                         \* uint vector, too short
      <<17, 5, 0, 4, 1>>,                               \* dictionary, too short
      <<12, 7, 1>>,                                     \* byte array, too short
      <<7, 7, 120>>,                                    \* XML, too short
      <<9, 3, 1, 9, 2>>,                                \* array; ref 1 in the payload
      <<6, 3, 255>>,                                    \* string, not UTF-8
      <<6, 2, 6, 3, 97, 6, 4>>,                         \* string refs out of range
      <<10, 3, 1, 10, 5, 10, 2>>,                       \* sealed; trait ref 0; trait ref 1
      <<10, 3, 1, 10, 19, 1, 3, 97, 1, 10, 5, 1>>,      \* two traits; trait ref 1
      <<18, 1>>,                                        \* no such marker
      <<9, 5, 1, 4, 1, 18>>,                            \* array [1, no such marker]
      <<9, 5, 1, 4, 1, 4, 2>>,                          \* strict array [1, 2]
      <<9, 5, 1, 6, 3, 120, 4, 1>>,                     \* strict array ["x", 1]
      <<9, 1, 3, 120, 6, 3, 121, 1, 10, 11, 2, 3, 97, 18>>,
                          \* ECMA array x -> "y"; dynamic "y", a -> no such marker
      <<9, 3, 3, 97, 4, 1, 3, 98, 4, 2, 1, 4, 3>>,      \* ECMA array a -> 1, b -> 2; 3
      <<10, 19, 1, 1, 4, 7>>,                           \* sealed, property ""
      <<10, 35, 1, 3, 97, 3, 98, 4, 1, 4, 2>>,          \* sealed a -> 1, b -> 2
      <<10, 35, 3, 67, 3, 97, 0, 10, 1, 1, 1, 1>>,
                          \* sealed "C": a -> (trait ref 0: null, null), "C" -> null
      <<10, 35, 1, 3, 97, 3, 98, 10, 19, 1, 3, 99, 4, 1, 9, 1, 1>>,
                          \* sealed a -> (sealed c -> 1), b -> empty array
      <<10, 27, 1, 3, 97, 4, 1, 3, 98, 4, 2, 1>>,       \* dynamic; a -> 1; b -> 2
      <<10, 11, 1, 3, 97, 4, 1, 3, 98, 4, 2, 1, 4, 9>>, \* dynamic a -> 1, b -> 2; 9
      <<9, 5, 1, 10, 11, 1, 1, 10, 27, 1, 3, 97, 4, 1, 1>>,
                          \* array [dynamic, no field; dynamic, a -> 1 only]
      <<10, 11, 1, 3, 120, 4, 1, 1, 10, 1, 0, 10, 0, 1, 10, 4>>,
                          \* dynamic x; trait ref 0, string ref 0, ref 0; ref 2
      <<4, 255, 255, 255, 255, 5, 1, 2, 3, 4, 5, 6, 7, 8, 2, 3>>,
      <<3, 97, 4, 1, 0, 0, 3, 98, 9, 1, 1, 0, 0, 0, 9, 0, 0, 0>>,  \* body a, b, a
      <<3, 97, 6, 0, 0, 0, 1, 6, 0, 0, 0>>,             \* body a -> "a", "" -> "a"
      <<3, 97, 4, 1, 0, 0, 18>>,                        \* body a -> 1; name: bad ref
      <<3, 97, 4, 1, 0, 0, 3, 98, 18>>                  \* body a -> 1; b -> no marker
    }

\* A named element on the wire: the name it decodes to, the bytes of the
\* name and of the value, and the value they encode.  Cycle stands for an
\* array whose only item is the array itself.
Named(name, nameEnc, valEnc, val) ==
    [name |-> name, nameEnc |-> nameEnc, valEnc |-> valEnc, val |-> val]

Cycle == [t |-> "Cycle"]

\* Well-formed bodies, as the lists of their elements
Bodies ==
    { <<Named(<<97>>, <<3, 97>>, <<4, 1>>, Integer(1))>>,
      <<Named(<<97>>, <<3, 97>>, <<4, 1>>, Integer(1)),
        Named(<<98>>, <<3, 98>>, <<9, 1, 1>>, StrictArray(<<>>))>>,
      <<Named(<<97>>, <<3, 97>>, <<6, 0>>, String(<<97>>)),
        Named(<<>>, <<1>>, <<1>>, Null)>>,
      <<Named(<<97>>, <<3, 97>>, <<2>>, Bool(FALSE)),
        Named(<<97>>, <<0>>, <<12, 3, 7>>, ByteArray(<<7>>))>>,
      <<Named(<<97>>, <<3, 97>>, <<0>>, Undefined),
        Named(<<98>>, <<3, 98>>, <<9, 3, 1, 9, 0>>, Cycle)>> }

\* The bytes of a body: every element is its name, its value and the padding
RECURSIVE Wire(_)
Wire(b) ==
    IF b = <<>> THEN <<>>
    ELSE Head(b).nameEnc \o Head(b).valEnc \o PADDING \o Wire(Tail(b))

\* What follows a body in the input: nothing, or a byte that starts no element
Trails == {<<>>, <<18>>}

BodyInputs == {Wire(b) \o t : b \in Bodies, t \in Trails}

Inputs == Streams(MaxLen) \cup Scenarios \cup BodyInputs

-----------------------------------------------------------------------------
(* The decoder as a state machine: the caller holds one decoder and one    *)
(* stream and decodes from the cursor; after a call it may skip a byte.    *)

\* Calls on one decoder
MaxCalls == 3

NoRet == [op |-> "none", st |-> "none", v |-> 0, e |-> "none"]

\* No TreeNode exists while the decoder runs
NoNode == [value |-> Null, expanded |-> FALSE, element_callback |-> FALSE,
           emitted |-> "none", msg |-> "none", arg |-> Null,
           before |-> Null, was_expanded |-> FALSE]

\* AMF3Decoder::default(), with the external decoder registered under "A"
Init ==
    /\ string_reference_table = <<>>
    /\ trait_reference_table = <<>>
    /\ object_reference_table = <<>>
    /\ external_decoders = {ClassA}
    /\ heap = <<>>
    /\ hist = NoHist
    /\ input \in Inputs
    /\ cursor = input
    /\ ret = NoRet
    /\ node = NoNode

\* self at the start of a call
Decoder ==
    [string_reference_table |-> string_reference_table,
     trait_reference_table |-> trait_reference_table,
     object_reference_table |-> object_reference_table,
     external_decoders |-> external_decoders,
     heap |-> heap,
     hist |-> HistCall(hist)]

\* A call returned r: Ok advances the caller's cursor, the handles it
\* returned (the element's, or those of a body's elements) stay with the
\* caller
Return(op, r) ==
    /\ string_reference_table' = r.d.string_reference_table
    /\ trait_reference_table' = r.d.trait_reference_table
    /\ object_reference_table' = r.d.object_reference_table
    /\ external_decoders' = r.d.external_decoders
    /\ heap' = r.d.heap
    /\ hist' = [r.d.hist EXCEPT
                   !.calls = @ + 1,
                   !.failed = @ + (IF r.st = "ok" THEN 0 ELSE 1),
                   !.results = @ \o (IF r.st # "ok" THEN <<>>
                                     ELSE IF op = "parse_body" THEN ElementValues(r.v)
                                     ELSE <<r.v>>)]
    /\ cursor' = IF r.st = "ok" THEN r.i ELSE cursor
    /\ ret' = [op |-> op, st |-> r.st, v |-> r.v, e |-> r.e]
    /\ UNCHANGED <<input, node>>

ParseSingleElement ==
    /\ ret.st # "panic"
    /\ hist.calls < MaxCalls
    /\ Return("parse_single_element", parse_single_element(Decoder, cursor))

ParseBody ==
    /\ ret.st # "panic"
    /\ hist.calls < MaxCalls
    /\ Return("parse_body", parse_body(Decoder, cursor))

\* The caller moves its cursor past one byte
Skip ==
    /\ ret.st # "panic"
    /\ cursor # <<>>
    /\ hist.skips < MaxSkips
    /\ cursor' = Tail(cursor)
    /\ hist' = [hist EXCEPT !.skips = @ + 1]
    /\ UNCHANGED <<string_reference_table, trait_reference_table,
                   object_reference_table, external_decoders, heap, input, ret,
                   node>>

Next == ParseSingleElement \/ ParseBody \/ Skip

Spec == Init /\ [][Next]_vars

-----------------------------------------------------------------------------
(* The variable-length integers on their own: read_int and read_int_signed *)
(* applied to every stream of up to MaxIntLen bytes over IntBytes          *)

MaxIntLen == 4

IntBytes == {0, 1, 127, 128, 129, 255}

InitInt ==
    /\ string_reference_table = <<>>
    /\ trait_reference_table = <<>>
    /\ object_reference_table = <<>>
    /\ external_decoders = {}
    /\ heap = <<>>
    /\ hist = NoHist
    /\ input \in UNION {[1..k -> IntBytes] : k \in 1..MaxIntLen}
    /\ cursor = input
    /\ ret = NoRet
    /\ node = NoNode

ReturnInt(op, r) ==
    /\ cursor' = IF r.st = "ok" THEN r.i ELSE cursor
    /\ ret' = [op |-> op, st |-> r.st, v |-> r.v, e |-> r.e]
    /\ UNCHANGED <<string_reference_table, trait_reference_table,
                   object_reference_table, external_decoders, heap, hist, input,
                   node>>

ReadInt == ret.op = "none" /\ ReturnInt("read_int", read_int(cursor))

ReadIntSigned == ret.op = "none" /\ ReturnInt("read_int_signed", read_int_signed(cursor))

ReadLength == ret.op = "none" /\ ReturnInt("read_length", read_length(cursor))

NextInt == ReadInt \/ ReadIntSigned \/ ReadLength

SpecInt == InitInt /\ [][NextInt]_vars

-----------------------------------------------------------------------------
(* Claims about the reference tables *)

\* The handle the inline decode of slot idx returned (0: none yet)
ReturnedFor(idx) ==
    IF idx + 1 <= Len(hist.returned) THEN hist.returned[idx + 1] ELSE 0

\* C1: a reference whose index selects the slot of a complex value that was
\* decoded inline returns the very handle the inline decode returned.
C1_ReferenceIdentity ==
    \A ev \in hist.refs :
        ReturnedFor(ev[1]) # 0 => ev[2] = ReturnedFor(ev[1])

\* C2: when the payload of a value read by the reference-or-value
\* combinator refers to the value's own slot, the decode does not abort, and
\* when it returns Ok the reference and the returned handle are the slot's
\* handle, which holds the completed value and not the Null placeholder.
C2_SelfReferenceInCombinator ==
    \A o \in hist.cyc :
        o.kind = "val" =>
            /\ ret.st # "panic"
            /\ ret.st = "ok" =>
                   LET h == object_reference_table[o.idx + 1]
                   IN /\ heap[h].val.t # "Null"
                      /\ ReturnedFor(o.idx) = h
                      /\ \A ev \in hist.refs : ev[1] = o.idx => ev[2] = h

\* The trait of the object in slot idx is not External
NotExternal(idx) ==
    LET cd == heap[object_reference_table[idx + 1]].val.class_def
    IN cd # <<>> /\ "External" \notin cd[1].attributes

\* C3: an object one of whose fields refers to the object's own slot decodes
\* to a cyclic value: the decode does not abort, and when it returns Ok the
\* field's handle is the returned handle, the slot's.
C3_SelfReferenceInObject ==
    \A o \in hist.cyc :
        (o.kind = "obj" /\ NotExternal(o.idx)) =>
            /\ ret.st # "panic"
            /\ ret.st = "ok" =>
                   LET h == object_reference_table[o.idx + 1]
                   IN /\ ReturnedFor(o.idx) = h
                      /\ \A ev \in hist.refs : ev[1] = o.idx => ev[2] = h

\* C4: after an externalizable object with a registered class name is
\* decoded, its slot holds Custom(elements, [], Some(trait)) and the handle
\* returned is the slot's handle.
C4_ExternalSlotHoldsCustom ==
    \A idx \in hist.ext_done :
        LET h == object_reference_table[idx + 1]
        IN /\ heap[h].val.t = "Custom"
           /\ ReturnedFor(idx) = h

EmptyStrings == <<6, 1, 6, 1>>

\* C6: a byte stream of length Size(0) is read as the empty byte string and
\* leaves the string table as it was; after the two empty strings of
\* 06 01 06 01 are decoded the string table is empty.
C6_EmptyNotInterned ==
    /\ \A ev \in hist.bs :
           (ev.len.kind = "Size" /\ ev.len.n = 0) =>
               ev.st = "ok" /\ ev.v = <<>> /\ ev.rest = ev.i /\ ev.after = ev.before
    /\ (input = EmptyStrings /\ cursor = <<>> /\ hist.skips = 0 /\ Len(hist.results) = 2) =>
           string_reference_table = <<>>

C6_Witness ==
    /\ input = EmptyStrings
    /\ cursor = <<>>
    /\ hist.skips = 0
    /\ Len(hist.results) = 2
    /\ \A k \in 1..2 : heap[hist.results[k]].val = String(<<>>)
    /\ \E ev \in hist.bs : ev.len.kind = "Size" /\ ev.len.n = 0

Foo == <<102, 111, 111>>

FooTwice == <<6, 7>> \o Foo \o <<6, 0>>

\* C7: Size(n), n > 0, with n bytes left: the n bytes are consumed, returned
\* and appended as one entry to the string table.  Reference(i), i below
\* the table's length: nothing is consumed, entry i is returned and the
\* table is unchanged.  06 07 66 6F 6F 06 00 decodes to "foo" twice with
\* one entry in the string table.
C7_ByteStream ==
    /\ \A ev \in hist.bs :
           /\ (ev.len.kind = "Size" /\ ev.len.n > 0 /\ Len(ev.i) >= ev.len.n) =>
                  /\ ev.st = "ok"
                  /\ ev.v = SubSeq(ev.i, 1, ev.len.n)
                  /\ ev.rest = SubSeq(ev.i, ev.len.n + 1, Len(ev.i))
                  /\ ev.after = Append(ev.before, ev.v)
           /\ (ev.len.kind = "Reference" /\ ev.len.n < Len(ev.before)) =>
                  /\ ev.st = "ok"
                  /\ ev.v = ev.before[ev.len.n + 1]
                  /\ ev.rest = ev.i
                  /\ ev.after = ev.before
    /\ (input = FooTwice /\ cursor = <<>> /\ hist.skips = 0 /\ Len(hist.results) = 2) =>
           /\ string_reference_table = <<Foo>>
           /\ \A k \in 1..2 : heap[hist.results[k]].val = String(Foo)

C7_Witness ==
    /\ input = FooTwice
    /\ cursor = <<>>
    /\ hist.skips = 0
    /\ Len(hist.results) = 2
    /\ string_reference_table = <<Foo>>
    /\ \E ev \in hist.bs : ev.len.kind = "Reference" /\ ev.st = "ok" /\ ev.v = Foo

-----------------------------------------------------------------------------
(* Claims about errors *)

\* The per-element floor of the aggregates that have one
Floor(which) ==
    CASE which = "byte_array" -> 1
      [] which \in {"vector_int", "vector_uint"} -> 4
      [] which = "vector_double" -> 8
      [] which = "array" -> 1
      [] which \in {"xml", "xml_string"} -> 1
      [] which = "dict" -> 2
      [] OTHER -> 0

\* The closure run ev reached its length check with too few bytes left for
\* the declared count: the dictionary checks after its weak-keys byte, the
\* others on the input they start on
Short(ev) ==
    /\ Floor(ev.which) > 0
    /\ IF ev.which = "dict"
       THEN Len(ev.i) >= 1 /\ Len(ev.i) - 1 < ev.n * 2
       ELSE Len(ev.i) < ev.n * Floor(ev.which)

\* C11 as stated: every aggregate with a floor, on too few bytes for the
\* declared count, fails with Oversize (ErrorKind::TooLarge) before
\* anything is parsed or built.
C11_Oversize ==
    \A ev \in hist.agg :
        Short(ev) => ev.st = "err" /\ ev.e = "TooLarge" /\ ev.untouched

\* C11 amended: the vectors of ints, uints and doubles, the array and the
\* dictionary fail with Oversize (ErrorKind::TooLarge); the byte array and
\* XML fail with the Incomplete of the take that reads their bytes; in both
\* cases before anything is parsed or built.
C11_OversizeAmended ==
    \A ev \in hist.agg :
        Short(ev) =>
            /\ ev.untouched
            /\ IF ev.which \in {"byte_array", "xml", "xml_string"}
               THEN ev.st = "incomplete"
               ELSE ev.st = "err" /\ ev.e = "TooLarge"

C11_Witness ==
    /\ ret.st = "incomplete"
    /\ \E ev \in hist.agg :
           Short(ev) /\ ev.which = "byte_array" /\ ev.st = "incomplete" /\ ev.n = 3

\* C12: a name or an element that fails to decode inside parse_body or
\* parse_single_element makes that call return an error; parse_body never
\* returns Ok with the elements decoded before the failure.  (A
\* parse_element that starts on the empty input is the end of the body and
\* is not counted as a failure.)
C12_ErrorsAreFatal ==
    /\ (ret.op = "parse_body"
         /\ \E ev \in hist.elems : ev.st # "ok" /\ ev.i # <<>>)
        => ret.st # "ok"
    /\ (ret.op = "parse_single_element"
         /\ \E ev \in hist.bs \cup hist.agg : ev.st # "ok")
        => ret.st # "ok"

\* The kinds of value the decoder of the type with marker byte b builds
KindsOf(b) ==
    CASE b = 0 -> {"Undefined"}
      [] b = 1 -> {"Null"}
      [] b \in {2, 3} -> {"Bool"}
      [] b = 4 -> {"Integer"}
      [] b = 5 -> {"Number"}
      [] b = 6 -> {"String"}
      [] b \in {7, 11} -> {"XML"}
      [] b = 8 -> {"Date"}
      [] b = 9 -> {"StrictArray", "ECMAArray"}
      [] b = 10 -> {"Object", "Custom"}
      [] b = 12 -> {"ByteArray"}
      [] b = 13 -> {"VectorInt"}
      [] b = 14 -> {"VectorUInt"}
      [] b = 15 -> {"VectorDouble"}
      [] b = 16 -> {"VectorObject"}
      [] b = 17 -> {"Dictionary"}
      [] OTHER -> {}

\* The fields from the j-th on are the elements decoded one after the other
\* from input i, named by the static properties in order
RECURSIVE StaticFields(_, _, _, _)
StaticFields(fields, names, j, i) ==
    \/ j > Len(names)
    \/ /\ j <= Len(fields)
       /\ fields[j].name = names[j]
       /\ \E m \in hist.marks :
              /\ m.i = i /\ m.st = "ok" /\ m.h = fields[j].value
              /\ StaticFields(fields, names, j + 1, m.rest)

\* C16: for a non-external object whose trait (inline or taken by trait
\* reference) declares k static properties, the k elements after the trait
\* header are decoded in order and are the first k fields of the Object, the
\* j-th named by the j-th static property; a sealed object has exactly these
\* k fields.  The Object is built whenever its fields decode: the decode
\* fails only with an error of the input.
C16_StaticFields ==
    \A ev \in hist.objs :
        /\ ev.st # "panic"
        /\ ev.st = "ok" =>
               /\ StaticFields(ev.fields, ev.names, 1, ev.i)
               /\ ev.attributes = {} => Len(ev.fields) = Len(ev.names)

\* The handles hs from the j-th on are the elements decoded one after the
\* other from input i
RECURSIVE Consecutive(_, _, _)
Consecutive(hs, j, i) ==
    \/ j > Len(hs)
    \/ \E m \in hist.marks :
           /\ m.i = i /\ m.st = "ok" /\ m.h = hs[j]
           /\ Consecutive(hs, j + 1, m.rest)

\* The array of event ev read from the key at input i on, j associative
\* pairs before it: a non-empty key and its value are the next pair, the
\* empty key ends the pairs and the n dense elements follow
RECURSIVE ArrayParts(_, _, _)
ArrayParts(ev, j, i) ==
    \E k \in hist.bs :
        /\ k.from = i /\ k.st = "ok"
        /\ IF k.v = <<>>
           THEN /\ Len(ev.assoc) = j
                /\ Len(ev.dense) = ev.n
                /\ Consecutive(ev.dense, 1, k.rest)
           ELSE /\ j < Len(ev.assoc)
                /\ ev.assoc[j + 1].name = k.v
                /\ \E m \in hist.marks :
                       /\ m.i = k.rest /\ m.st = "ok"
                       /\ m.h = ev.assoc[j + 1].value
                       /\ ArrayParts(ev, j + 1, m.rest)

\* The array of size 2 with the pair "a" -> 1 and the dense elements 10, 20
ArrayExample == <<9, 5, 3, 97, 4, 1, 1, 4, 10, 4, 20>>

ArrayExampleDecoded ==
    /\ ret.st = "ok"
    /\ heap[ret.v].val.t = "ECMAArray"
    /\ heap[ret.v].val.len = 1
    /\ Len(heap[ret.v].val.dense) = 2
    /\ heap[heap[ret.v].val.dense[1]].val = Integer(10)
    /\ heap[heap[ret.v].val.dense[2]].val = Integer(20)
    /\ Len(heap[ret.v].val.assoc) = 1
    /\ heap[ret.v].val.assoc[1].name = <<97>>
    /\ heap[heap[ret.v].val.assoc[1].value].val = Integer(1)

\* C17: an inline array with declared size n whose payload decodes gives a
\* value: StrictArray of exactly the n elements after an empty first key;
\* otherwise ECMAArray(dense, associative, c) with the pairs in wire order up
\* to the first empty key, the n elements that follow as dense, and c the
\* number of pairs.  Size 2, "a" -> 1, the empty key, 10, 20 gives
\* ECMAArray([10, 20], [("a", 1)], 1).
C17_Array ==
    /\ \A ev \in hist.vals :
           ev.which = "array" =>
               /\ ev.st # "panic"
               /\ ev.st = "ok" =>
                      /\ ArrayParts(ev, 0, ev.i)
                      /\ ev.t = IF ev.assoc = <<>> THEN "StrictArray" ELSE "ECMAArray"
                      /\ ev.t = "ECMAArray" => ev.count = Len(ev.assoc)
    /\ (input = ArrayExample /\ ret.op = "parse_single_element"
          /\ hist.calls = 1 /\ hist.skips = 0) => ArrayExampleDecoded

\* The byte streams and the traits a call added to the tables
Interned == {k \in hist.bs : k.st = "ok" /\ k.after # k.before}

Defined == {c \in hist.defs : c.st = "ok" /\ c.after # c.before}

\* C18: object-table indices are assigned in pre-order of the wire.  The
\* slot of an inline complex value is in the table while every element of
\* its payload is parsed; its index is smaller than that of every inline
\* complex value nested in it, whose header comes later; of two inline
\* complex values the one whose header is earlier in the input has the
\* smaller index.  String-table and trait-table indices follow the order of
\* the input too.
C18_PreOrder ==
    /\ \A m \in hist.marks : \A p \in m.open : p < m.slots
    /\ \A b \in hist.opened : \A p \in b.parents :
           /\ p < b.idx
           /\ \E a \in hist.opened : a.idx = p /\ a.at > b.at
    /\ \A a, b \in hist.opened : a.at > b.at => a.idx < b.idx
    /\ \A x, y \in Interned :
           Len(x.from) > Len(y.from) => Len(x.before) < Len(y.before)
    /\ \A x, y \in Defined :
           Len(x.i) > Len(y.i) => Len(x.before) < Len(y.before)

\* One call decoded an object that holds an object and, after it, an array,
\* interning strings and traits on the way
C18_Witness ==
    /\ ret.st = "ok"
    /\ \E a, b, c \in hist.opened :
           /\ b.parents = {a.idx} /\ c.parents = {a.idx}
           /\ a.at > b.at /\ b.at > c.at
           /\ a.idx < b.idx /\ b.idx < c.idx
    /\ \E m \in hist.marks : m.st = "ok" /\ m.open # {}
    /\ \E x, y \in Interned : Len(x.from) > Len(y.from)
    /\ \E x, y \in Defined : Len(x.i) > Len(y.i)

\* The names from the j-th on are the byte streams read one after the other
\* from input i; the last of them ends at input rest
RECURSIVE NamesRead(_, _, _, _)
NamesRead(names, j, i, rest) ==
    IF j > Len(names) THEN i = rest
    ELSE \E k \in hist.bs :
             /\ k.from = i /\ k.st = "ok" /\ k.v = names[j]
             /\ NamesRead(names, j + 1, k.rest, rest)

\* C20: parse_class_def.  With bit 0 of the header clear it returns the trait
\* cached at index header >> 1, consumes nothing and leaves the trait table
\* as it was.  With an inline header it reads the class name, then exactly
\* k = header >> 3 property names in order; with encoding the bits 0-1 of
\* header >> 1, External is an attribute iff bit 0 of it is set and Dynamic
\* iff bit 1 is; exactly one entry, the returned trait, is appended to the
\* trait table.
C20_ClassDef ==
    \A c \in hist.defs :
        c.st = "ok" =>
            LET trait == ClassDefinition(c.name, c.attributes, c.static_properties)
                encoding == (c.length \div 2) % 4
            IN IF c.length % 2 = 0
               THEN /\ c.length \div 2 < Len(c.before)
                    /\ trait = c.before[c.length \div 2 + 1]
                    /\ c.rest = c.i
                    /\ c.after = c.before
               ELSE /\ Len(c.static_properties) = c.length \div 8
                    /\ NamesRead(<<c.name>> \o c.static_properties, 1, c.i, c.rest)
                    /\ "External" \in c.attributes <=> encoding % 2 = 1
                    /\ "Dynamic" \in c.attributes <=> encoding \div 2 = 1
                    /\ c.attributes \subseteq {"External", "Dynamic"}
                    /\ c.after = Append(c.before, trait)

\* One call read an inline trait with two property names and a trait by
\* reference
C20_Witness ==
    /\ ret.st = "ok"
    /\ \E c \in hist.defs :
           c.st = "ok" /\ c.length % 2 = 1 /\ Len(c.static_properties) = 2
    /\ \E c \in hist.defs :
           c.st = "ok" /\ c.length % 2 = 0 /\ c.before # <<>>

\* The fields of the object of event ev from the j-th on, read from input i:
\* a static property is one element; after the last of them a non-empty
\* name and the element after it are the next field, and the empty name
\* ends the fields, the object's input ending right after it
RECURSIVE DynamicFields(_, _, _)
DynamicFields(ev, j, i) ==
    IF j <= Len(ev.names)
    THEN /\ j <= Len(ev.fields)
         /\ ev.fields[j].name = ev.names[j]
         /\ \E m \in hist.marks :
                /\ m.i = i /\ m.st = "ok" /\ m.h = ev.fields[j].value
                /\ DynamicFields(ev, j + 1, m.rest)
    ELSE \E k \in hist.bs :
             /\ k.from = i /\ k.st = "ok"
             /\ IF k.v = <<>>
                THEN /\ Len(ev.fields) = j - 1
                     /\ ev.rest = k.rest
                ELSE /\ j <= Len(ev.fields)
                     /\ ev.fields[j].name = k.v
                     /\ \E m \in hist.marks :
                            /\ m.i = k.rest /\ m.st = "ok"
                            /\ m.h = ev.fields[j].value
                            /\ DynamicFields(ev, j + 1, m.rest)

\* The objects of a call that are dynamic and not external
DynamicObjects == {ev \in hist.objs : ev.attributes = {"Dynamic"}}

\* C21: the fields of a dynamic, non-external object are the k static
\* properties in declaration order, then the dynamic (name, value) pairs in
\* wire order; the dynamic loop stops at the first empty name, consumes it
\* and parses no value for it.  The Object is built whenever its fields
\* decode.
C21_DynamicFields ==
    \A ev \in DynamicObjects :
        /\ ev.st # "panic"
        /\ ev.st = "ok" => DynamicFields(ev, 1, ev.i)

\* s is a prefix of t
IsPrefix(s, t) == Len(s) <= Len(t) /\ SubSeq(t, 1, Len(s)) = s

\* The registered external decoders that were called and returned
Invoked == {ev \in hist.exts : ev.registered /\ ev.invoked}

\* C22: when a registered external decoder is called, the trait has been
\* parsed (and is the last entry of the trait table if it was inline), the
\* object's slot is in the object table with its class definition set to
\* the trait, and no field value of the object has been parsed: the decoder
\* gets the input right after the trait header.  What its nested calls
\* append to the tables stays there for the decoding that follows.
C22_ExternalCall ==
    \A ev \in Invoked :
        /\ ev.slot_set
        /\ \E c \in hist.defs :
               /\ c.st = "ok" /\ c.rest = ev.i
               /\ ClassDefinition(c.name, c.attributes, c.static_properties) = ev.trait
               /\ c.after = ev.at[2]
               /\ c.length % 2 = 1 => ev.at[2][Len(ev.at[2])] = ev.trait
        /\ \A k \in 1..3 : IsPrefix(ev.at[k], ev.after[k])
        /\ IsPrefix(ev.after[1], string_reference_table)
        /\ IsPrefix(ev.after[2], trait_reference_table)
        /\ IsPrefix(ev.after[3], object_reference_table)
        /\ \A l \in hist.lookups :
               (\A k \in 1..3 : IsPrefix(ev.after[k], l.before[k])) =>
                   \A k \in 1..3 : IsPrefix(ev.after[k], l.after[k])

\* The decoder of class "A" read a string inside an array; the element after
\* the object is a reference to that string and resolves
C22_Witness ==
    /\ ret.st = "ok"
    /\ \E ev \in Invoked :
           /\ ev.st = "ok"
           /\ Len(ev.after[1]) > Len(ev.at[1])
           /\ \E l \in hist.lookups :
                  /\ l.tbl = "string" /\ l.st = "ok"
                  /\ l.index = Len(ev.at[1])
                  /\ l.before = ev.after

\* The traits a call parsed that are both External and Dynamic, of a
\* registered class
ExternalDynamic ==
    {c \in hist.defs : /\ c.st = "ok"
                       /\ c.attributes = {"External", "Dynamic"}
                       /\ c.name \in external_decoders}

\* C23: an object whose trait is both External and Dynamic is decoded as
\* external only.  The registered decoder is called, on the input after the
\* trait header; what it returns is the custom list of a Custom value whose
\* regular list is empty, and the input it returns is the object's: the
\* core reads no static property and no dynamic tail.
C23_ExternalDynamic ==
    \A c \in ExternalDynamic :
        /\ \A ev \in hist.objs : ev.i # c.rest
        /\ \E ev \in Invoked :
               /\ ev.i = c.rest
               /\ ev.st = "ok" =>
                      /\ ev.t = "Custom" /\ ev.regular = <<>>
                      /\ \E m \in hist.marks :
                             /\ m.i = ev.i /\ m.st = "ok"
                             /\ ev.custom = <<Element(<<>>, m.h)>>
                             /\ ev.rest = m.rest

\* The object 0A 0F 03 41 04 05 01 was decoded: the decoder of "A" read the
\* integer 5, and the byte 01 after it was left in the input
C23_Witness ==
    /\ ret.op = "parse_single_element" /\ ret.st = "ok"
    /\ heap[ret.v].val.t = "Custom"
    /\ cursor = <<1>>
    /\ \E c \in ExternalDynamic : \E ev \in Invoked :
           ev.i = c.rest /\ ev.st = "ok" /\ ev.rest = <<1>> /\ ev.calls = 1

\* C24: parse_single_element and parse_body terminate, every step using up
\* input.  Every parse_single_element that returns a value, every byte
\* stream read (one per turn of the dynamic-field and associative-key loops)
\* and every element of a body leaves less input than it found; a length
\* field takes one to four bytes and a byte stream of size n exactly n more;
\* the parse_single_element calls of one call, failed ones included, are at
\* most one more than the bytes of the input, and a call never leaves more
\* input than it was given.
C24_Progress ==
    /\ \A m \in hist.marks : m.st = "ok" => Len(m.rest) < Len(m.i)
    /\ \A k \in hist.bs :
           /\ Len(k.from) - Len(k.i) \in 1..4
           /\ k.st = "ok" =>
                  /\ Len(k.rest) < Len(k.from)
                  /\ k.len.kind = "Size" => Len(k.rest) = Len(k.i) - k.len.n
    /\ \A ev \in hist.elems : ev.st = "ok" => Len(ev.rest) + 2 <= Len(ev.i)
    /\ \A ev \in hist.vals : ev.st = "ok" => ev.n <= Len(ev.i)
    /\ hist.singles <= Len(input) + 1
    /\ Cardinality(hist.bs) <= Len(input)
    /\ Cardinality(hist.elems) <= Len(input) + 1
    /\ Len(cursor) <= Len(input)
    /\ ret.op # "none" => ret.st \in {"ok", "err", "incomplete", "panic"}

\* A body of two elements was read to its end, a byte stream of one byte and
\* an empty array among them
C24_Witness ==
    /\ ret.op = "parse_body" /\ ret.st = "ok" /\ Len(ret.v) = 2
    /\ cursor = <<>> /\ hist.calls = 1 /\ hist.skips = 0
    /\ hist.singles = 2
    /\ \E k \in hist.bs : k.st = "ok" /\ k.len = [kind |-> "Size", n |-> 1]
    /\ \E ev \in hist.vals : ev.st = "ok" /\ ev.which = "array"

\* C25: a decode call returns Ok or Err and never aborts: the expects of the
\* patch steps hold in every reachable state, the reserved index being in
\* the table and the slot having no other owner when it is patched.
C25_NeverAborts ==
    /\ ret.st # "panic"
    /\ \A m \in hist.marks : m.st # "panic"

\* C26: across the decode calls on one decoder, successful or failed, the
\* three tables only grow at the end: every step leaves each table a prefix
\* of what it becomes, so no entry is removed, reordered or changed and the
\* handle at an object-table index stays the same handle; the same holds
\* around every byte stream, trait and reference read inside a call.
C26_TablesOnlyGrow ==
    [][/\ IsPrefix(string_reference_table, string_reference_table')
       /\ IsPrefix(trait_reference_table, trait_reference_table')
       /\ IsPrefix(object_reference_table, object_reference_table')
       /\ \A k \in hist'.bs : IsPrefix(k.before, k.after)
       /\ \A c \in hist'.defs : IsPrefix(c.before, c.after)
       /\ \A l \in hist'.lookups :
              \A t \in 1..3 : IsPrefix(l.before[t], l.after[t])
       /\ \A ev \in hist'.exts :
              \A t \in 1..3 : IsPrefix(ev.at[t], ev.after[t])]_vars

\* A call failed on a decoder whose three tables an earlier call had filled,
\* and left them at least as long
C26_Witness ==
    /\ hist.calls >= 2 /\ hist.failed >= 1 /\ ret.st = "err"
    /\ Len(hist.results) >= 1
    /\ Len(string_reference_table) >= 2
    /\ Len(trait_reference_table) >= 1
    /\ Len(object_reference_table) >= 2

\* The markers of Undefined, Null, False, True, Integer and Number
ScalarMarkers == 0..5

\* C27: decoding Undefined, Null, False, True, Integer or Number leaves the
\* three tables as they were; decoding a String element changes at most the
\* string table; no decode changes the registry of external decoders, which
\* holds the class "A" from the start.
C27_Frame ==
    /\ external_decoders = {ClassA}
    /\ \A m \in hist.marks :
           /\ m.registry
           /\ m.i # <<>> =>
                  /\ m.i[1] \in ScalarMarkers => m.untouched
                  /\ m.i[1] = 6 => m.same[2] /\ m.same[3]

\* Inside an array, with its slot in the object table, a string was read and
\* interned and an integer was read
C27_Witness ==
    /\ ret.st = "ok"
    /\ \E m \in hist.marks :
           m.i # <<>> /\ m.i[1] = 6 /\ m.st = "ok" /\ ~m.same[1] /\ m.slots > 0
    /\ \E m \in hist.marks :
           m.i # <<>> /\ m.i[1] = 4 /\ m.st = "ok" /\ m.slots > 0

\* The decode of the inline value with slot idx has not returned
NotReturned(idx) ==
    idx + 1 > Len(hist.returned) \/ hist.returned[idx + 1] = 0

\* v is what a slot of kind k is reserved with: Null for the values of
\* parse_reference_or_val, an Object without fields for an object
Placeholder(v, k) ==
    IF k = "obj" THEN v.t = "Object" /\ v.elements = <<>> ELSE v = Null

\* C28: a failed decode does not roll the tables back.  The slot of an
\* inline complex value whose decode did not return stays in the object
\* table with its placeholder; the strings and traits a call interned are
\* in the tables after it, failed or not; a reference to an index of the
\* table resolves, to the handle of the slot.
C28_NoRollback ==
    /\ Len(hist.kinds) = Len(object_reference_table)
    /\ \A idx \in 0..(Len(object_reference_table) - 1) :
           NotReturned(idx) =>
               Placeholder(heap[object_reference_table[idx + 1]].val,
                           hist.kinds[idx + 1])
    /\ \A k \in Interned : IsPrefix(k.after, string_reference_table)
    /\ \A c \in Defined : IsPrefix(c.after, trait_reference_table)
    /\ \A l \in hist.lookups :
           (l.tbl = "object" /\ l.index < l.len) => l.st = "ok"
    /\ \A ref \in hist.refs : ref[2] = object_reference_table[ref[1] + 1]

\* After an array, an object failed at a dynamic field, its slot, its trait
\* and the field's name already in the tables; the caller moved on one byte
\* and the next call, a reference to the slot, returned the placeholder
C28_Witness ==
    /\ hist.calls = 3 /\ hist.failed = 1 /\ hist.skips = 1
    /\ ret.op = "parse_single_element" /\ ret.st = "ok"
    /\ NotReturned(1) /\ <<1, ret.v>> \in hist.refs
    /\ heap[ret.v].val.t = "Object" /\ heap[ret.v].val.elements = <<>>
    /\ Len(string_reference_table) = 3
    /\ Len(trait_reference_table) = 1

\* C15: when the trait of an object being decoded has the External attribute
\* and its class name is no key of the registry, the decode fails with
\* UnknownExternal (ErrorKind::Tag); no external decoder is called and no
\* field value is parsed.
C15_UnknownExternal ==
    \A ev \in hist.exts :
        ~ev.registered =>
            ev.st = "err" /\ ev.e = "Tag" /\ ~ev.invoked /\ ~ev.parsed

\* Class "B" is not registered; the call has failed on it
C15_Witness ==
    /\ ret.st = "err" /\ ret.e = "Tag"
    /\ \E ev \in hist.exts : ~ev.registered /\ ev.name = ClassB /\ ev.st = "err"

\* C14: parse_single_element on a first byte that is not a marker
\* (0x00..0x11) fails with InvalidMarker (ErrorKind::HexDigit) and leaves the
\* three reference tables as they were; on a marker, a value it builds (one
\* not taken from the object table by reference) is of that marker's type,
\* XML and XmlString being told apart by the flag of the value.
C14_Markers ==
    \A ev \in hist.marks :
        ev.i # <<>> =>
            /\ ev.i[1] > 17 => ev.st = "err" /\ ev.e = "HexDigit" /\ ev.untouched
            /\ (ev.i[1] <= 17 /\ ev.fresh) =>
                   /\ ev.t \in KindsOf(ev.i[1])
                   /\ ev.t = "XML" => (ev.string <=> ev.i[1] = 11)

\* An array holds two elements one of which is no marker; the call fails
\* after the first element was decoded
C14_Witness ==
    /\ ret.st = "err" /\ ret.e = "HexDigit"
    /\ \E ev \in hist.marks : ev.i # <<>> /\ ev.i[1] = 18 /\ ev.st = "err"
    /\ \E ev \in hist.marks : ev.st = "ok" /\ ev.fresh /\ ev.t = "Integer"

-----------------------------------------------------------------------------
(* Claims about bodies *)

\* The value of handle h is the value val a body element encodes
Matches(h, val) ==
    IF val = Cycle
    THEN heap[h].val.t = "StrictArray" /\ heap[h].val.items = <<h>>
    ELSE heap[h].val = val

\* The first call on the input was parse_body, on the whole of it
FirstCallIsParseBody == ret.op = "parse_body" /\ hist.calls = 1 /\ hist.skips = 0

\* C13: parse_body on a well-formed body of k >= 1 named elements, each
\* followed by the padding, returns those k elements in wire order, each
\* name with its own value, and leaves the cursor right after the last
\* padding.
C13_BodyConsumed ==
    \A b \in Bodies, t \in Trails :
        (input = Wire(b) \o t /\ FirstCallIsParseBody) =>
            /\ ret.st = "ok"
            /\ cursor = t
            /\ Len(ret.v) = Len(b)
            /\ \A j \in 1..Len(b) :
                   /\ ret.v[j].name = b[j].name
                   /\ Matches(ret.v[j].value, b[j].val)

-----------------------------------------------------------------------------
(* Claims about the variable-length integers (under SpecInt) *)

\* Bytes of the encoding that starts stream b: a byte below 0x80 among the
\* first three ends it, the fourth byte always does
EncodingLen(b) ==
    IF b[1] < 128 THEN 1
    ELSE IF Len(b) >= 2 /\ b[2] < 128 THEN 2
    ELSE IF Len(b) >= 3 /\ b[3] < 128 THEN 3
    ELSE 4

\* The value of a k-byte encoding: 7 bits of each of the first k - 1 bytes,
\* then the low 7 bits of a last byte that is the first to third, or all 8
\* bits of a fourth
Assembled(b, k) ==
    CASE k = 1 -> b[1]
      [] k = 2 -> (b[1] - 128) * 128 + b[2]
      [] k = 3 -> (b[1] - 128) * 16384 + (b[2] - 128) * 128 + b[3]
      [] k = 4 -> (b[1] - 128) * 4194304 + (b[2] - 128) * 32768
                  + (b[3] - 128) * 256 + b[4]

Consumed == Len(input) - Len(cursor)

\* C9: read_int returns the assembled value of the encoding, which lies in
\* 0 .. 2^29 - 1; 7F is 127, 81 00 is 128 and FF FF FF FF is 536870911.
C9_ReadInt ==
    (ret.op = "read_int" /\ ret.st = "ok") =>
        /\ Consumed = EncodingLen(input)
        /\ ret.v = Assembled(input, EncodingLen(input))
        /\ ret.v \in 0..536870911
        /\ input = <<127>> => ret.v = 127
        /\ input = <<129, 0>> => ret.v = 128
        /\ input = <<255, 255, 255, 255>> => ret.v = 536870911

\* C10: read_int_signed consumes the bytes read_int consumes and returns
\* the assembled value, less 0x20000000 when a fourth byte was read and bit
\* 0x10000000 is set; the result lies in -2^28 .. 2^28 - 1, is not negative
\* for an encoding of one to three bytes, and FF FF FF FF is -1.
C10_ReadIntSigned ==
    (ret.op = "read_int_signed" /\ ret.st = "ok") =>
        LET k == EncodingLen(input)
            a == Assembled(input, k)
        IN /\ Consumed = k
           /\ read_int(input).st = "ok" /\ read_int(input).i = cursor
           /\ ret.v = IF k = 4 /\ (a \div 268435456) % 2 = 1 THEN a - 536870912 ELSE a
           /\ ret.v \in -268435456..268435455
           /\ k <= 3 => ret.v >= 0
           /\ input = <<255, 255, 255, 255>> => ret.v = -1

C10_Witness ==
    /\ ret.op = "read_int_signed"
    /\ ret.st = "ok"
    /\ input = <<255, 255, 255, 255>>
    /\ ret.v = -1

\* C19: read_length maps the U29 value v of every encoding of one to four
\* bytes to Reference(v >> 1) when bit 0 of v is clear and to Size(v >> 1)
\* when it is set; a header whose low bit is clear is a reference whatever
\* its length in bytes.
C19_ReadLength ==
    (ret.op = "read_length" /\ ret.st = "ok") =>
        LET k == EncodingLen(input)
            v == Assembled(input, k)
        IN /\ Consumed = k
           /\ ret.v.n = v \div 2
           /\ ret.v.kind = IF v % 2 = 0 THEN "Reference" ELSE "Size"
           /\ input[k] % 2 = 0 => ret.v.kind = "Reference"

-----------------------------------------------------------------------------
(* The editor's tree node (web/src/component_treenode.rs): a component     *)
(* holding a Value and an expanded flag, updated by six messages.  An      *)
(* element's Rc<Value> is an opaque handle here.                           *)

\* Longest field list of the node's value
MaxFields == 2

TreeNames == {<<97>>, <<98>>}

TreeHandles == 1..2

TreeElements == {Element(n, h) : n \in TreeNames, h \in TreeHandles}

FieldLists == UNION {[1..k -> TreeElements] : k \in 0..MaxFields}

\* The values a node is created with
TreeValues ==
    {Null, Integer(1)}
    \cup {Object(es, <<>>) : es \in FieldLists}
    \cup {Custom(a, b, <<>>) : a \in FieldLists, b \in FieldLists}

\* The values an editor hands back in Msg::Edited
EditedValues == {Null, Object(<<Element(<<97>>, 1)>>, <<>>),
                 Custom(<<Element(<<98>>, 2)>>, <<Element(<<98>>, 1)>>, <<>>)}

\* iter().position(|e| e.name == name): the first index (from 1), 0 for None
position_Last(list, name) ==
    IF \E k \in 1..Len(list) : list[k].name = name
    THEN CHOOSE k \in 1..Len(list) :
            /\ list[k].name = name
            /\ \A j \in (k + 1)..Len(list) : list[j].name # name
    ELSE 0

position(list, name) ==
    IF \E k \in 1..Len(list) : list[k].name = name
    THEN CHOOSE k \in 1..Len(list) :
            /\ list[k].name = name
            /\ \A j \in 1..(k - 1) : list[j].name # name
    ELSE 0

\* if let Some(index) = index { list[index] = el; }
Assign(list, index, el) ==
    IF index # 0 THEN [list EXCEPT ![index] = el] ELSE list

\* TreeNode::create
create(value, element_callback) ==
    [NoNode EXCEPT !.value = value, !.expanded = FALSE,
                   !.element_callback = element_callback]

\* TreeNode::update: the node after the message (it always returns true)
update(self, msg, arg) ==
    IF msg = "Selection" THEN [self EXCEPT !.emitted = "parent_callback"]
    ELSE IF msg = "Toggle" THEN [self EXCEPT !.expanded = ~self.expanded]
    ELSE IF msg = "Edited" THEN
        [self EXCEPT !.value = arg,
                     !.emitted = IF self.element_callback THEN "element_callback"
                                 ELSE @]
    ELSE IF msg = "ElementChange" THEN
        IF self.value.t = "Object"
        THEN [self EXCEPT !.value.elements =
                  Assign(@, position(@, arg.name), arg)]
        ELSE self
    ELSE IF msg = "CustomElementChange" THEN
        IF self.value.t = "Custom"
        THEN [self EXCEPT !.value.custom =
                  Assign(@, position(@, arg.name), arg)]
        ELSE self
    ELSE \* CustomElementChangeStandard
        IF self.value.t = "Custom"
        THEN [self EXCEPT !.value.regular =
                  Assign(@, position(@, arg.name), arg)]
        ELSE self

InitTree ==
    /\ string_reference_table = <<>>
    /\ trait_reference_table = <<>>
    /\ object_reference_table = <<>>
    /\ external_decoders = {}
    /\ heap = <<>>
    /\ hist = NoHist
    /\ input = <<>>
    /\ cursor = <<>>
    /\ ret = NoRet
    /\ \E value \in TreeValues, element_callback \in BOOLEAN :
           node = create(value, element_callback)

\* The framework delivers msg to update; the node remembers the message
\* and what it was before (history only)
Deliver(msg, arg) ==
    /\ node' = [update([node EXCEPT !.emitted = "none"], msg, arg) EXCEPT
                   !.msg = msg, !.arg = arg,
                   !.before = node.value, !.was_expanded = node.expanded]
    /\ UNCHANGED <<string_reference_table, trait_reference_table,
                   object_reference_table, external_decoders, heap, hist,
                   input, cursor, ret>>

\* The view sends Selection with the node's own value
Selection == Deliver("Selection", node.value)

Toggle == Deliver("Toggle", Null)

Edited == \E v \in EditedValues : Deliver("Edited", v)

ElementChange == \E el \in TreeElements : Deliver("ElementChange", el)

CustomElementChange == \E el \in TreeElements : Deliver("CustomElementChange", el)

CustomElementChangeStandard ==
    \E el \in TreeElements : Deliver("CustomElementChangeStandard", el)

NextTree ==
    \/ Selection
    \/ Toggle
    \/ Edited
    \/ ElementChange
    \/ CustomElementChange
    \/ CustomElementChangeStandard

SpecTree == InitTree /\ [][NextTree]_vars

\* after is list with exactly the first field named el.name replaced by el:
\* same length, every other position as it was; the list itself when no
\* field has that name
FirstReplaced(list, after, el) ==
    /\ Len(after) = Len(list)
    /\ \A k \in 1..Len(list) :
           after[k] = IF /\ list[k].name = el.name
                         /\ \A j \in 1..(k - 1) : list[j].name # el.name
                      THEN el ELSE list[k]

\* C29: ElementChange(el) on an Object value, CustomElementChange(el) on
\* the first list of a Custom value and CustomElementChangeStandard(el) on
\* its second list replace exactly the first field named el.name and leave
\* every other field, the order, the length and the rest of the value as
\* they were; with no such field, or on a value of another kind, the value
\* is unchanged.  Only Toggle changes the expanded flag.
C29_ElementChange ==
    /\ node.msg = "ElementChange" =>
           IF node.before.t = "Object"
           THEN /\ node.value.t = "Object"
                /\ FirstReplaced(node.before.elements, node.value.elements, node.arg)
                /\ node.value.class_def = node.before.class_def
           ELSE node.value = node.before
    /\ node.msg = "CustomElementChange" =>
           IF node.before.t = "Custom"
           THEN /\ node.value.t = "Custom"
                /\ FirstReplaced(node.before.custom, node.value.custom, node.arg)
                /\ node.value.regular = node.before.regular
                /\ node.value.class_def = node.before.class_def
           ELSE node.value = node.before
    /\ node.msg = "CustomElementChangeStandard" =>
           IF node.before.t = "Custom"
           THEN /\ node.value.t = "Custom"
                /\ FirstReplaced(node.before.regular, node.value.regular, node.arg)
                /\ node.value.custom = node.before.custom
                /\ node.value.class_def = node.before.class_def
           ELSE node.value = node.before
    /\ node.msg \notin {"none", "Toggle"} => node.expanded = node.was_expanded
    /\ (node.msg \in {"ElementChange", "CustomElementChange",
                      "CustomElementChangeStandard"}
        /\ \A list \in {IF node.before.t = "Object" THEN node.before.elements
                        ELSE IF node.before.t = "Custom"
                        THEN (IF node.msg = "CustomElementChange"
                              THEN node.before.custom ELSE node.before.regular)
                        ELSE <<>>} :
               \A k \in 1..Len(list) : list[k].name # node.arg.name)
       => node.value = node.before

\* An Object whose two fields share a name got ElementChange with that
\* name: the first was replaced, the second kept
C29_Witness ==
    /\ node.msg = "ElementChange"
    /\ node.before.t = "Object"
    /\ Len(node.before.elements) = 2
    /\ node.before.elements[1].name = node.arg.name
    /\ node.before.elements[2].name = node.arg.name
    /\ node.before.elements[1] # node.arg
    /\ node.before.elements[2] # node.arg
    /\ node.value.elements = <<node.arg, node.before.elements[2]>>

=============================================================================
